---- MODULE Spec2Model ----
(***************************************************************************)
(* A model of pm001-scraper: the crawl controller of src/测试.py            *)
(* (scrape_recent_posts over parse_board_page) and the batch analysis     *)
(* pipeline of src/ai.py (split_and_analyze_by_board, analyze_batch,      *)
(* merge_all_ai_tsv_results, extract_tsv_from_ai_output).                 *)
(*                                                                         *)
(* The specifications of the module:                                       *)
(*   Spec       the crawl: one run of scrape_recent_posts;                 *)
(*   SpecFault  the crawl, with exceptions raised in the loop bodies;      *)
(*   SpecSoup   one call of get_soup;                                      *)
(*   SpecParse  one call of parse_date_string or of parse_board_page;      *)
(*   SpecPool   the analysis: one run of split_and_analyze_by_board;       *)
(*   SpecMerge  one call of merge_all_ai_tsv_results;                      *)
(*   SpecExtract one call of extract_tsv_from_ai_output;                   *)
(*   SpecUnit   a crawl, a call of get_soup or an analysis, under fairness. *)
(* Each leaves the variables of the others at their initial values.        *)
(***************************************************************************)
EXTENDS Integers, Sequences, FiniteSets, TLC

VARIABLES
    \* ---- scrape_recent_posts (src/测试.py) ----
    PAGES_PER_BOARD,    \* the configured page limit (module constant, line 22)
    crawl_pc,           \* "page" | "board_end" | "return" | "done"
    board_pos,          \* position in board_ids of the board being crawled
    page_num,           \* the page about to be fetched
    all_recent_posts,   \* the list the function builds and returns
    crawl_result,       \* the list the function returned, once crawl_pc = "done"
    served,             \* number of posts the site has served so far
    trace,              \* history: the fetches and the delays, in order
    \* ---- split_and_analyze_by_board (src/ai.py) ----
    data_file,          \* "ok" | "missing" | "unreadable": the file named by data_file
    df,                 \* the rows read, each given by its board_id
    batch_size,         \* parameter batch_size
    max_workers,        \* parameter max_workers
    pool_pc,            \* "read" | "board" | "collect" | "done"
    pool_board,         \* position, in group order, of the board being analysed
    task,               \* per batch: the future of analyze_batch and its progress
    batch_results,      \* per board: the list batch_results
    slot_writes,        \* per batch: how often batch_results[idx] was assigned
    ai_outputs,         \* the list handed to merge_all_ai_tsv_results
    final_tsv,          \* what split_and_analyze_by_board ended with
    \* ---- get_soup (src/测试.py) ----
    retry_count,        \* local retry_count
    soup_pc,            \* "loop" | "done"
    soup_result,        \* "soup" | "None" once soup_pc = "done"
    soup_log,           \* history: the calls of session.get and the backoff waits
    \* ---- parse_date_string, parse_board_page (src/测试.py) ----
    now_year,           \* datetime.now().year
    parse_pc,           \* "date" | "page": the call to make; "date_done" | "page_done"
    date_str,           \* argument of parse_date_string
    post_divs,          \* the containers of the fetched page
    date_result,        \* what parse_date_string returned
    posts_data,         \* what parse_board_page returned
    \* ---- extract_tsv_from_ai_output (src/ai.py) ----
    extract_pc,         \* "call": the call to make; "returned" | "done"
    ai_output,          \* argument of extract_tsv_from_ai_output
    extract_result      \* the list extract_tsv_from_ai_output returned

crawl_vars == <<PAGES_PER_BOARD, crawl_pc, board_pos, page_num,
                all_recent_posts, crawl_result, served, trace>>

pool_vars == <<data_file, df, batch_size, max_workers, pool_pc, pool_board, task,
               batch_results, slot_writes, ai_outputs, final_tsv>>

soup_vars == <<retry_count, soup_pc, soup_result, soup_log>>

parse_vars == <<now_year, parse_pc, date_str, post_divs, date_result, posts_data>>

extract_vars == <<extract_pc, ai_output, extract_result>>

vars == <<crawl_vars, pool_vars, soup_vars, parse_vars, extract_vars>>

-----------------------------------------------------------------------------
(* Bounds of the model *)

\* the largest page limit the configuration is given
MaxPagesPerBoard == 3
\* the number of posts the site serves in one crawl, over all pages
MaxPosts == 3
\* the clock reading when the crawl starts (datetime.now())
Now == 3
\* the largest number of rows of the data file
MaxRows == 3
\* the largest batch_size and the largest max_workers the function is given
MaxBatchSize == 2
MaxWorkers == 2
\* the largest number of containers of a page handed to the parser
MaxContainers == 2
\* the largest number of exceptions raised in one crawl
MaxFaults == 1

-----------------------------------------------------------------------------
(* Crawl controller: src/测试.py *)

\* board_ids, the boards to crawl, in the given order
board_ids == <<2, 1>>

DAYS_LIMIT == 2

\* cutoff_date = now - timedelta(days=days_limit)
cutoff_date == Now - DAYS_LIMIT

\* the dates a post can carry: before, at and after the cutoff
Dates == (cutoff_date - 1) .. (cutoff_date + 1)

\* what get_soup hands the parser: nothing (a failed fetch, get_soup returned
\* None), or a page, given by the dates of its post containers in page order;
\* the containers meant are those with a title and a date that parses, the
\* others give no record (ContainersFrom below)
NoSoup == [ok |-> FALSE, divs |-> <<>>]
SoupsUpTo(n) == {[ok |-> TRUE, divs |-> d] : d \in UNION {[1..k -> Dates] : k \in 0..n}}

\* parse_board_page: no records for a failed fetch or a page with no
\* containers, else one record per container, in page order
parse_board_page(soup, board_id, page) ==
    IF ~soup.ok
    THEN <<>>
    ELSE [i \in 1..Len(soup.divs) |->
            [board_id |-> board_id, page |-> page, post_id |-> i, date |-> soup.divs[i]]]

\* line 428: the acceptance test of one post
IsRecent_strict(post) == post.date > cutoff_date
IsRecent(post) == post.date >= cutoff_date

\* lines 421-431: the scan of one page, post by post, from the state
\* [recent, had_recent, oldest] before post i; oldest is the position on the
\* page of oldest_post_on_page, 0 while it is None
RECURSIVE ScanFrom(_, _, _)
ScanFrom(posts, i, st) ==
    IF i > Len(posts)
    THEN st
    ELSE LET post == posts[i]
             oldest == IF st.oldest = 0 \/ post.date < posts[st.oldest].date
                       THEN i ELSE st.oldest
         IN  ScanFrom(posts, i + 1,
                 IF IsRecent(post)
                 THEN [recent |-> Append(st.recent, post), had_recent |-> TRUE,
                       oldest |-> oldest]
                 ELSE [recent |-> st.recent, had_recent |-> st.had_recent,
                       oldest |-> oldest])

ScanPage(posts) ==
    ScanFrom(posts, 1, [recent |-> <<>>, had_recent |-> FALSE, oldest |-> 0])

\* lines 414-419: an empty page ends the board, on page 1 and on any later page
EmptyStop_never(posts, page) == FALSE
EmptyStop(posts, page) ==
    \/ Len(posts) = 0 /\ page = 1
    \/ Len(posts) = 0

\* line 433: the stale stop
StaleStop_never(posts, scan) == FALSE
StaleStop_ignores_recent(posts, scan) ==
    /\ scan.oldest /= 0
    /\ posts[scan.oldest].date < cutoff_date
StaleStop(posts, scan) ==
    /\ scan.oldest /= 0
    /\ posts[scan.oldest].date < cutoff_date
    /\ ~scan.had_recent

FetchEvent(b, p, soup) == [ev |-> "fetch", board_id |-> b, page |-> p, soup |-> soup]
PageDelay == [ev |-> "page_delay"]
BoardDelay == [ev |-> "board_delay"]

\* lines 410-412: the page delay is awaited right after parse_board_page,
\* before the tests for an empty page
PageDelays_unless_empty(posts) == IF Len(posts) = 0 THEN <<>> ELSE <<PageDelay>>
PageDelays(posts) == <<PageDelay>>

InitCrawl ==
    /\ PAGES_PER_BOARD \in 1..MaxPagesPerBoard
    /\ crawl_pc = "page"
    /\ board_pos = 1
    /\ page_num = 1
    /\ all_recent_posts = <<>>
    /\ crawl_result = <<>>
    /\ served = 0
    /\ trace = <<>>

\* lines 405-435: one iteration of the page loop. The site answers the fetch
\* with a failure or with a page of posts.
ProcessPage ==
    /\ crawl_pc = "page"
    /\ \E soup \in {NoSoup} \cup SoupsUpTo(MaxPosts - served) :
        LET board_id == board_ids[board_pos]
            posts_on_page == parse_board_page(soup, board_id, page_num)
            scan == ScanPage(posts_on_page)
            stop == \/ EmptyStop(posts_on_page, page_num)
                    \/ StaleStop(posts_on_page, scan)
        IN  /\ trace' = trace \o <<FetchEvent(board_id, page_num, soup)>>
                                \o PageDelays(posts_on_page)
            /\ served' = served + Len(posts_on_page)
            /\ all_recent_posts' =
                  IF EmptyStop(posts_on_page, page_num)
                  THEN all_recent_posts
                  ELSE all_recent_posts \o scan.recent
            /\ IF stop \/ page_num = PAGES_PER_BOARD
               THEN crawl_pc' = "board_end" /\ page_num' = page_num
               ELSE crawl_pc' = "page" /\ page_num' = page_num + 1
    /\ UNCHANGED <<PAGES_PER_BOARD, board_pos, crawl_result>>
    /\ UNCHANGED <<pool_vars, soup_vars, parse_vars, extract_vars>>

\* lines 440-443 and the board loop of line 399: the board delay, then the
\* next board or the end of the loop
EndBoard ==
    /\ crawl_pc = "board_end"
    /\ trace' = Append(trace, BoardDelay)
    /\ IF board_pos < Len(board_ids)
       THEN /\ board_pos' = board_pos + 1
            /\ page_num' = 1
            /\ crawl_pc' = "page"
       ELSE /\ crawl_pc' = "return"
            /\ UNCHANGED <<board_pos, page_num>>
    /\ UNCHANGED <<PAGES_PER_BOARD, all_recent_posts, crawl_result, served>>
    /\ UNCHANGED <<pool_vars, soup_vars, parse_vars, extract_vars>>

\* lines 448-449: return all_recent_posts
ReturnPosts ==
    /\ crawl_pc = "return"
    /\ crawl_result' = all_recent_posts
    /\ crawl_pc' = "done"
    /\ UNCHANGED <<PAGES_PER_BOARD, board_pos, page_num, all_recent_posts, served, trace>>
    /\ UNCHANGED <<pool_vars, soup_vars, parse_vars, extract_vars>>

NextCrawl == ProcessPage \/ EndBoard \/ ReturnPosts

-----------------------------------------------------------------------------
(* Crawl controller under faults: the except handlers of scrape_recent_posts,
   src/测试.py lines 436-438 and 444-446.

   parse_board_page catches what is raised inside it (lines 280, 378-380),
   so the body of the page loop can raise only after the fetch: at the page
   delay (lines 410-412), or in the scan of the posts (lines 421-435). The
   rest of the board body can raise at the board delay (lines 441-443). *)

\* the handler an exception of the page body ends in: the innermost one,
\* line 436; the outermost one is line 450, which returns
PageErrorHandler_outermost == "crawl"
PageErrorHandler == "page"

\* the number of exceptions caught so far
Faults == Cardinality({i \in 1..Len(trace) : trace[i].ev \in {"page_error", "board_error"}})

\* history: an exception was caught; accepted is all_recent_posts at that time
PageError(b, p, accepted) ==
    [ev |-> "page_error", board_id |-> b, page |-> p, accepted |-> accepted]
BoardError(b, accepted) ==
    [ev |-> "board_error", board_id |-> b, page |-> 0, accepted |-> accepted]

\* lines 405-438: an iteration of the page loop that raises. The fetch has
\* been made; the exception is raised at the page delay (at = 0, nothing
\* scanned), or in the scan when scanned posts have been handled. Line 438
\* continues with the next page.
PageRaises ==
    /\ crawl_pc = "page"
    /\ Faults < MaxFaults
    /\ \E soup \in {NoSoup} \cup SoupsUpTo(MaxPosts - served) :
        LET board_id == board_ids[board_pos]
            posts_on_page == parse_board_page(soup, board_id, page_num)
        IN  \E at \in 0..1 :
            \E scanned \in 0..Len(posts_on_page) :
                LET recent == ScanPage(SubSeq(posts_on_page, 1, scanned)).recent
                    accepted == all_recent_posts \o recent
                IN  /\ at = 0 => scanned = 0
                    /\ at = 1 => ~EmptyStop(posts_on_page, page_num)
                    /\ all_recent_posts' = accepted
                    /\ trace' = trace
                                \o <<FetchEvent(board_id, page_num, soup)>>
                                \o (IF at = 1 THEN <<PageDelay>> ELSE <<>>)
                                \o <<PageError(board_id, page_num, accepted)>>
                    /\ served' = served + Len(posts_on_page)
    /\ IF PageErrorHandler = "page"
       THEN IF page_num = PAGES_PER_BOARD
            THEN crawl_pc' = "board_end" /\ page_num' = page_num
            ELSE crawl_pc' = "page" /\ page_num' = page_num + 1
       ELSE crawl_pc' = "return" /\ page_num' = page_num
    /\ UNCHANGED <<PAGES_PER_BOARD, board_pos, crawl_result>>
    /\ UNCHANGED <<pool_vars, soup_vars, parse_vars, extract_vars>>

\* lines 440-446: the board delay raises; line 446 continues with the next
\* board, or the board loop ends
BoardRaises ==
    /\ crawl_pc = "board_end"
    /\ Faults < MaxFaults
    /\ trace' = Append(trace, BoardError(board_ids[board_pos], all_recent_posts))
    /\ IF board_pos < Len(board_ids)
       THEN /\ board_pos' = board_pos + 1
            /\ page_num' = 1
            /\ crawl_pc' = "page"
       ELSE /\ crawl_pc' = "return"
            /\ UNCHANGED <<board_pos, page_num>>
    /\ UNCHANGED <<PAGES_PER_BOARD, all_recent_posts, crawl_result, served>>
    /\ UNCHANGED <<pool_vars, soup_vars, parse_vars, extract_vars>>

NextFault == ProcessPage \/ PageRaises \/ EndBoard \/ BoardRaises \/ ReturnPosts

-----------------------------------------------------------------------------
(* Fetcher: get_soup, src/测试.py lines 94-187 *)

\* MAX_RETRIES, line 25: the default of parameter max_retries
MAX_RETRIES == 3
\* RETRY_STATUS_CODES, line 27
RETRY_STATUS_CODES == {408, 429, 500, 502, 503, 504}
\* the status codes the site answers with
StatusCodes == {200, 404, 503}

\* what one call of session.get (line 123) and the parse of its body come to:
\* a response with its status code, whose body BeautifulSoup parses or not,
\* or one of the exceptions of lines 154-184
Response(status, parses) == [kind |-> "response", status |-> status, parses |-> parses]
Raised(kind) == [kind |-> kind, status |-> 0, parses |-> FALSE]
GetOutcomes ==
    {Response(c, p) : c \in StatusCodes, p \in BOOLEAN} \cup
    {Raised("Timeout"), Raised("ConnectionError"), Raised("RequestException"),
     Raised("Exception")}

\* line 111: while retry_count <= max_retries
LoopGoesOn(count) == count <= MAX_RETRIES

\* line 147: the status is one to retry on
IsRetryStatus_any(status) == TRUE
IsRetryStatus(status) == status \in RETRY_STATUS_CODES

\* lines 157, 167, 177: after an exception, wait and try again
RetriesAfterException(count) == count <= MAX_RETRIES

\* the events of the history: a call of session.get with its outcome; a
\* backoff wait (time.sleep(wait_time)), n being the retry_count that
\* wait_time is computed from
GetEvent(outcome) == [ev |-> "get", outcome |-> outcome, n |-> 0]
SleepEvent(count) == [ev |-> "sleep", outcome |-> Raised("none"), n |-> count]

SoupIdle ==
    /\ retry_count = 0
    /\ soup_pc = "done"
    /\ soup_result = "None"
    /\ soup_log = <<>>

\* lines 105-109
InitSoup ==
    /\ retry_count = 0
    /\ soup_pc = "loop"
    /\ soup_result = "None"
    /\ soup_log = <<>>

\* lines 111-186: one pass of the loop: the request, and what follows from
\* its outcome (return, or count the retry, wait and go round again)
SoupAttempt ==
    /\ soup_pc = "loop"
    /\ LoopGoesOn(retry_count)
    /\ \E outcome \in GetOutcomes :
        LET got == Append(soup_log, GetEvent(outcome))
        IN  IF outcome.kind = "response"
            THEN IF outcome.status = 200
                 THEN \* lines 137-143
                      /\ soup_result' = IF outcome.parses THEN "soup" ELSE "None"
                      /\ soup_pc' = "done"
                      /\ soup_log' = got
                      /\ UNCHANGED retry_count
                 ELSE IF IsRetryStatus(outcome.status)
                      THEN \* lines 147-152
                           /\ retry_count' = retry_count + 1
                           /\ soup_log' = Append(got, SleepEvent(retry_count + 1))
                           /\ UNCHANGED <<soup_pc, soup_result>>
                      ELSE \* line 153
                           /\ soup_result' = "None"
                           /\ soup_pc' = "done"
                           /\ soup_log' = got
                           /\ UNCHANGED retry_count
            ELSE IF outcome.kind \in {"Timeout", "ConnectionError", "RequestException"}
                 THEN \* lines 154-183
                      /\ retry_count' = retry_count + 1
                      /\ IF RetriesAfterException(retry_count + 1)
                         THEN /\ soup_log' = Append(got, SleepEvent(retry_count + 1))
                              /\ UNCHANGED <<soup_pc, soup_result>>
                         ELSE /\ soup_result' = "None"
                              /\ soup_pc' = "done"
                              /\ soup_log' = got
                 ELSE \* lines 184-186
                      /\ soup_result' = "None"
                      /\ soup_pc' = "done"
                      /\ soup_log' = got
                      /\ UNCHANGED retry_count
    /\ UNCHANGED <<crawl_vars, pool_vars, parse_vars, extract_vars>>

\* line 187: the loop condition fails
SoupGivesUp ==
    /\ soup_pc = "loop"
    /\ ~LoopGoesOn(retry_count)
    /\ soup_result' = "None"
    /\ soup_pc' = "done"
    /\ UNCHANGED <<retry_count, soup_log>>
    /\ UNCHANGED <<crawl_vars, pool_vars, parse_vars, extract_vars>>

NextSoup == SoupAttempt \/ SoupGivesUp

-----------------------------------------------------------------------------
(* Page parser: parse_date_string and the container loop of
   parse_board_page, src/测试.py lines 190-263 and 296-377.

   A date string is given by its parts: blanks around it (pad), the year
   as written (digits = 0 when there is none), month and day, the separator
   between them, the time of day (kind none, hm or hms; ok = its numbers are
   in range), and text after the time (junk). *)

Year(digits, val) == [digits |-> digits, val |-> val]
\* the years a date string is written with
Years == {Year(0, 0), Year(2, 23), Year(2, 24), Year(2, 99), Year(3, 123),
          Year(4, 2023), Year(4, 2024)}
\* month and day: a day of every year, a day of leap years, a day of no year
MonthDays == {"01-02", "02-29", "02-30"}
TimeOfDay(kind, ok) == [kind |-> kind, ok |-> ok]
Times == {TimeOfDay("none", TRUE), TimeOfDay("hm", TRUE), TimeOfDay("hms", TRUE),
          TimeOfDay("hm", FALSE), TimeOfDay("hms", FALSE)}
DateStrings ==
    [pad : BOOLEAN, year : Years, md : MonthDays, sep : {"-", "/", "."},
     time : Times, junk : BOOLEAN]

\* datetime.now().year, lines 220, 250
CurrentYears == {2023, 2024}

\* the datetime returned, or None
NoneDate == [isNone |-> TRUE, year |-> 0, md |-> "none", time |-> "none"]
Datetime(year, md, time) == [isNone |-> FALSE, year |-> year, md |-> md, time |-> time]

Leap(y) == y % 4 = 0 /\ (y % 100 /= 0 \/ y % 400 = 0)
\* datetime(year, month, day, ...) and strptime accept the day
MdValid(md, y) == md = "01-02" \/ (md = "02-29" /\ Leap(y))

\* line 201: date_str.strip().replace('/', '-')
Normalise(s) == [s EXCEPT !.pad = FALSE, !.sep = IF s.sep = "/" THEN "-" ELSE s.sep]

\* lines 204-213: date_formats, each by its year directive (%Y: 4 digits,
\* %y: 2 digits, none: 0) and its time directives
Format(y, t) == [y |-> y, t |-> t]
date_formats == <<Format(4, "hms"), Format(4, "hm"), Format(4, "none"),
                  Format(2, "hms"), Format(2, "hm"), Format(2, "none"),
                  Format(0, "hms"), Format(0, "hm")>>

\* lines 218-222: datetime.strptime(normalized, fmt), then the current year
\* for a format without a year. strptime takes the whole string or raises;
\* %y gives 2000-2068 and 1969-1999; without a year it checks the day
\* against 1900.
Strptime(n, fmt, now) ==
    LET y == IF fmt.y = 4 THEN n.year.val
             ELSE IF fmt.y = 2
                  THEN (IF n.year.val <= 68 THEN 2000 + n.year.val ELSE 1900 + n.year.val)
                  ELSE 1900
    IN  IF /\ ~n.pad /\ ~n.junk /\ n.sep = "-"
           /\ n.year.digits = fmt.y
           /\ n.time.kind = fmt.t /\ n.time.ok
           /\ MdValid(n.md, y)
        THEN Datetime(IF fmt.y = 0 THEN now ELSE y, n.md, n.time.kind)
        ELSE NoneDate

\* lines 216-225: the loop over date_formats, from format k on
RECURSIVE FormatsFrom(_, _, _)
FormatsFrom(n, k, now) ==
    IF k > Len(date_formats) THEN NoneDate
    ELSE LET dt == Strptime(n, date_formats[k], now)
         IN  IF ~dt.isNone THEN dt ELSE FormatsFrom(n, k + 1, now)

\* lines 228-233: the two patterns, searched anywhere in the string. The
\* first needs a year of 2 to 4 digits, the second finds month, day and time
\* also behind a year; both need a time.
PatternMatches(n, p) ==
    /\ n.sep = "-"
    /\ n.time.kind /= "none"
    /\ p = 1 => n.year.digits >= 2

\* lines 238-258: the datetime built from the groups of pattern p; a
\* ValueError (line 258) gives None here
FromPattern(n, p, now) ==
    LET y == IF p = 1
             THEN (IF n.year.val < 100 THEN n.year.val + 2000 ELSE n.year.val)
             ELSE now
    IN  IF MdValid(n.md, y) /\ n.time.ok
        THEN Datetime(y, n.md, n.time.kind)
        ELSE NoneDate

\* the order the patterns are tried in
PatternOrder_reversed == <<2, 1>>
PatternOrder == <<1, 2>>

\* lines 235-260: the loop over patterns, from the k-th on
RECURSIVE PatternsFrom(_, _, _)
PatternsFrom(n, k, now) ==
    IF k > Len(PatternOrder) THEN NoneDate
    ELSE LET p == PatternOrder[k]
             dt == IF PatternMatches(n, p) THEN FromPattern(n, p, now) ELSE NoneDate
         IN  IF ~dt.isNone THEN dt ELSE PatternsFrom(n, k + 1, now)

\* lines 190-263
parse_date_string(str, now) ==
    LET normalized == Normalise(str)
        dt == FormatsFrom(normalized, 1, now)
    IN  IF ~dt.isNone THEN dt ELSE PatternsFrom(normalized, 1, now)

\* A container (div.list) of a fetched page: the title text found in it (""
\* when the title div or its link is missing), the text of its date link
\* (hasDate = FALSE when there is none), and whether handling it raises
\* (line 371).
Container(title, hasDate, date, raises) ==
    [title |-> title, hasDate |-> hasDate, date |-> date, raises |-> raises]
\* the date texts of the pages
PageDateStrings ==
    {s \in DateStrings :
        /\ ~s.pad /\ s.sep = "/" /\ s.time = TimeOfDay("hms", TRUE)
        /\ s.year \in {Year(0, 0), Year(4, 2023)}
        /\ s.md \in {"01-02", "02-30"}}
AnyDateString == CHOOSE s \in PageDateStrings : TRUE
Containers ==
    {Container(t, TRUE, s, r) : t \in {"", "t"}, s \in PageDateStrings, r \in BOOLEAN}
    \cup {Container(t, FALSE, AnyDateString, r) : t \in {"", "t"}, r \in BOOLEAN}
Pages == UNION {[1..k -> Containers] : k \in 0..MaxContainers}

\* line 343: the pattern of a full date in date_str_candidate
DateMatch(s) == s.year.digits = 4 /\ s.sep \in {"-", "/"} /\ s.time.kind = "hms"
\* line 345: date_match.group(1)
MatchedPart(s) == [s EXCEPT !.pad = FALSE, !.junk = FALSE]

\* lines 336-351: post_datetime of a container
PostDatetime(c, now) ==
    IF ~c.hasDate THEN NoneDate
    ELSE IF DateMatch(c.date) THEN parse_date_string(MatchedPart(c.date), now)
    ELSE parse_date_string(c.date, now)

\* line 353: if title_text and post_datetime
KeepsRecord_with_title(title_text, post_datetime) == title_text /= ""
KeepsRecord(title_text, post_datetime) == title_text /= "" /\ ~post_datetime.isNone

\* lines 296-377: the loop over the containers from container i on; posts is
\* posts_data so far
RECURSIVE ContainersFrom(_, _, _, _)
ContainersFrom(divs, i, posts, now) ==
    IF i > Len(divs) THEN posts
    ELSE LET c == divs[i]
             post_datetime == PostDatetime(c, now)
         IN  ContainersFrom(divs, i + 1,
                 IF ~c.raises /\ KeepsRecord(c.title, post_datetime)
                 THEN Append(posts, [title |-> c.title, date |-> post_datetime, idx |-> i])
                 ELSE posts,
                 now)

ParseIdle ==
    /\ now_year = 2023
    /\ parse_pc = "done"
    /\ date_str = AnyDateString
    /\ post_divs = <<>>
    /\ date_result = NoneDate
    /\ posts_data = <<>>

\* a call of parse_date_string, or a call of parse_board_page whose fetch
\* gave a page
InitParse ==
    /\ now_year \in CurrentYears
    /\ date_result = NoneDate
    /\ posts_data = <<>>
    /\ \/ parse_pc = "date" /\ date_str \in DateStrings /\ post_divs = <<>>
       \/ parse_pc = "page" /\ date_str = AnyDateString /\ post_divs \in Pages

ParseDate ==
    /\ parse_pc = "date"
    /\ date_result' = parse_date_string(date_str, now_year)
    /\ parse_pc' = "date_done"
    /\ UNCHANGED <<now_year, date_str, post_divs, posts_data>>
    /\ UNCHANGED <<crawl_vars, pool_vars, soup_vars, extract_vars>>

ParsePage ==
    /\ parse_pc = "page"
    /\ posts_data' = ContainersFrom(post_divs, 1, <<>>, now_year)
    /\ parse_pc' = "page_done"
    /\ UNCHANGED <<now_year, date_str, post_divs, date_result>>
    /\ UNCHANGED <<crawl_vars, pool_vars, soup_vars, extract_vars>>

NextParse == ParseDate \/ ParsePage

-----------------------------------------------------------------------------
(* Text of the extraction capability: src/ai.py                            *)
(*                                                                         *)
(* A text is the sequence of its lines (str.splitlines); a line is its     *)
(* leading blanks (lead) and its tab-separated fields (str.split('\t'),    *)
(* undone by '\t'.join). Field contents are tokens; the ones the code      *)
(* looks for stand for the strings of the source:                          *)
(*    "AI_FAIL: e"  a text beginning with the marker "AI分析失败"            *)
(*    "TITLE"       the header signature "原始标题文本"                      *)
(*    "BOARD_ID"    the column name "板块ID"                                 *)
(*    "BOARD_NAME"  the column name "板块名称"                               *)
(*    "FENCE_TSV", "FENCE"  the opening fence of a tsv code block and the   *)
(*                  bare fence (three backquotes), on lines of their own   *)
(*    "# c"         a line beginning with "# "                             *)

Line(lead, fields) == [lead |-> lead, fields |-> fields]

\* str.startswith on a field token
StartsWithFail(tok) == tok \in {"AI_FAIL", "AI_FAIL: e"}
StartsWithHeaderSig(tok) == tok \in {"TITLE"}
StartsWithHash(tok) == tok \in {"# c"}
StartsWithFence(tok) == tok \in {"FENCE", "FENCE_TSV"}

\* l.strip() is empty: nothing but blanks and tabs
IsBlank(l) == \A k \in 1..Len(l.fields) : l.fields[k] = ""

\* the first token of l.strip(): the first non-empty field
FirstToken(l) ==
    IF IsBlank(l) THEN ""
    ELSE l.fields[CHOOSE k \in 1..Len(l.fields) :
                      /\ l.fields[k] /= ""
                      /\ \A j \in 1..(k - 1) : l.fields[j] = ""]

\* the first token of l as it stands (no strip): nothing when l begins with a
\* blank or a tab
RawFirstToken(l) == IF l.lead > 0 THEN "" ELSE l.fields[1]

\* the first token of text.strip(): that of its first non-blank line
TextFirstToken(text) ==
    IF \A n \in 1..Len(text) : IsBlank(text[n]) THEN ""
    ELSE FirstToken(text[CHOOSE n \in 1..Len(text) :
                            /\ ~IsBlank(text[n])
                            /\ \A m \in 1..(n - 1) : IsBlank(text[m])])

\* what _get_ai_insights hands back: None, or a text
NoneResult == [isNone |-> TRUE, text |-> <<>>]
TextResult(text) == [isNone |-> FALSE, text |-> text]

\* lines 509 and 539: r and not r.strip().startswith(marker)
IsAccepted(r) ==
    /\ ~r.isNone
    /\ Len(r.text) > 0
    /\ ~StartsWithFail(TextFirstToken(r.text))

RECURSIVE SeqFilter(_, _)
\* [x for x in s if x in keep], for a set keep of positions
SeqFilter(s, keep) ==
    IF Len(s) = 0 THEN <<>>
    ELSE LET rest == SeqFilter(SubSeq(s, 1, Len(s) - 1), keep)
         IN  IF Len(s) \in keep THEN Append(rest, s[Len(s)]) ELSE rest

\* lines 435-437: the search for a fenced tsv block in ai_output. The match
\* starts at the first opening fence; the blank lines after it are passed; the block
\* has at least one character and ends before the next fence. [found, block]
FencedBlock(text) ==
    LET opens == {n \in 1..Len(text) : FirstToken(text[n]) = "FENCE_TSV"}
    IN  IF opens = {} THEN [found |-> FALSE, block |-> <<>>]
        ELSE
        LET o == CHOOSE n \in opens : \A m \in opens : n <= m
            solid == {n \in (o + 1)..Len(text) : ~IsBlank(text[n])}
        IN  IF solid = {} THEN [found |-> FALSE, block |-> <<>>]
            ELSE
            LET s1 == CHOOSE n \in solid : \A m \in solid : n <= m
                closers == {n \in (s1 + 1)..Len(text) : StartsWithFence(FirstToken(text[n]))}
            IN  IF closers /= {}
                THEN LET c == CHOOSE n \in closers : \A m \in closers : n <= m
                     IN  [found |-> TRUE,
                          block |-> <<Line(0, text[s1].fields)>> \o SubSeq(text, s1 + 1, c - 1)]
                ELSE IF StartsWithFence(FirstToken(text[s1]))
                     THEN [found |-> TRUE, block |-> <<>>]
                     ELSE [found |-> FALSE, block |-> <<>>]

\* lines 440-444: the lines from the first one whose strip() starts with the
\* header signature, to the end of the text
HeaderBlock(text) ==
    LET heads == {n \in 1..Len(text) : StartsWithHeaderSig(FirstToken(text[n]))}
    IN  IF heads = {} THEN <<>>
        ELSE SubSeq(text, CHOOSE n \in heads : \A m \in heads : n <= m, Len(text))

\* line 446: the lines of the block that are kept
KeepsLine(l) ==
    /\ ~IsBlank(l)
    /\ ~StartsWithFail(RawFirstToken(l))
    /\ ~StartsWithHash(RawFirstToken(l))

\* lines 427-447
extract_tsv_from_ai_output(text) ==
    LET m == FencedBlock(text)
        tsv_block == IF m.found THEN m.block ELSE HeaderBlock(text)
    IN  SeqFilter(tsv_block, {n \in 1..Len(tsv_block) : KeepsLine(tsv_block[n])})

\* the most lines in a text handed to extract_tsv_from_ai_output
MaxLines == 4

\* the lines of the texts the extraction is tried on: the two fences, a header
\* line and one after a blank, a data row, an empty line, a line of the
\* failure marker and one after a blank, a comment line, a line of prose
ExtractLines ==
    {Line(0, <<"FENCE_TSV">>), Line(0, <<"FENCE">>),
     Line(0, <<"TITLE", "BOARD_ID">>), Line(1, <<"TITLE", "BOARD_ID">>),
     Line(0, <<"ta", "3">>), Line(0, <<"">>),
     Line(0, <<"AI_FAIL: e">>), Line(1, <<"AI_FAIL: e">>),
     Line(0, <<"# c">>), Line(0, <<"prose">>)}

ExtractTexts == UNION {[1..n -> ExtractLines] : n \in 0..MaxLines}

\* no call of extract_tsv_from_ai_output is made
ExtractIdle ==
    /\ extract_pc = "done"
    /\ ai_output = <<>>
    /\ extract_result = <<>>

\* the call extract_tsv_from_ai_output(ai_output) is about to be made
InitExtract ==
    /\ extract_pc = "call"
    /\ ai_output \in ExtractTexts
    /\ extract_result = <<>>

\* lines 427-447: the call returns tsv_lines
Extract ==
    /\ extract_pc = "call"
    /\ extract_result' = extract_tsv_from_ai_output(ai_output)
    /\ extract_pc' = "returned"
    /\ UNCHANGED ai_output
    /\ UNCHANGED <<crawl_vars, pool_vars, soup_vars, parse_vars>>

\* BOARD_ID_NAME_MAP, lines 30-39: the ids 2 and 3 are keys of the table,
\* the id 1 is not
BOARD_ID_NAME_MAP == [id \in {"2", "3"} |-> "name" \o id]

\* BOARD_ID_NAME_MAP.get(board_id, board_id)
BoardName_raw(board_id) == board_id
BoardName(board_id) ==
    IF board_id \in DOMAIN BOARD_ID_NAME_MAP THEN BOARD_ID_NAME_MAP[board_id] ELSE board_id

\* the fields of a line as line.split gives them: the first one keeps
\* the line's leading blanks
RawField(l, k) == [pad |-> IF k = 1 THEN l.lead ELSE 0, tok |-> l.fields[k]]

\* list.insert(at, tok) on the fields of a line, at being 0-based
InsertField(l, at, tok) ==
    Line(l.lead, SubSeq(l.fields, 1, at) \o <<tok>> \o SubSeq(l.fields, at + 1, Len(l.fields)))

\* line 464: the lines taken from a block that is not the first
LaterBlockLines_all(tsv_lines) == tsv_lines
LaterBlockLines(tsv_lines) == SubSeq(tsv_lines, 2, Len(tsv_lines))

\* lines 455-464: the header of the first non-empty block, then every block's
\* lines after its first
RECURSIVE GatherLines(_, _, _)
GatherLines(outputs, n, all_lines) ==
    IF n > Len(outputs) THEN all_lines
    ELSE LET tsv_lines == extract_tsv_from_ai_output(outputs[n])
         IN  IF Len(tsv_lines) = 0
             THEN GatherLines(outputs, n + 1, all_lines)
             ELSE IF Len(all_lines) = 0
                  THEN GatherLines(outputs, n + 1, tsv_lines)
                  ELSE GatherLines(outputs, n + 1,
                                   all_lines \o LaterBlockLines(tsv_lines))

\* list(dict.fromkeys(lines)): the first occurrence of each line, in order
Dedup(lines) ==
    SeqFilter(lines, {n \in 1..Len(lines) : \A m \in 1..(n - 1) : lines[m] /= lines[n]})

\* lines 468-483: the board-name column
Enrich(all_lines) ==
    LET header == all_lines[1]
        hits == {k \in 1..Len(header.fields) :
                    RawField(header, k) = [pad |-> 0, tok |-> "BOARD_ID"]}
    IN  IF hits = {} THEN all_lines
        ELSE
        LET idx == (CHOOSE k \in hits : \A j \in hits : k <= j) - 1
            hasName == \E k \in 1..Len(header.fields) :
                          RawField(header, k) = [pad |-> 0, tok |-> "BOARD_NAME"]
            new_header == IF hasName THEN header ELSE InsertField(header, idx + 1, "BOARD_NAME")
        IN  [n \in 1..Len(all_lines) |->
                IF n = 1 THEN new_header
                ELSE LET l == all_lines[n]
                     IN  IF Len(l.fields) > idx
                         THEN InsertField(l, idx + 1, BoardName(l.fields[idx + 1]))
                         ELSE l]

\* lines 449-483. [raised, lines]: the IndexError of all_lines[0] on line 466
\* when no output held a block, else the lines of the table
merge_all_ai_tsv_results(outputs) ==
    LET all_lines == GatherLines(outputs, 1, <<>>)
    IN  IF Len(all_lines) = 0
        THEN [raised |-> TRUE, lines |-> <<>>]
        ELSE [raised |-> FALSE,
              lines |-> Enrich(<<all_lines[1]>> \o Dedup(SubSeq(all_lines, 2, Len(all_lines))))]

-----------------------------------------------------------------------------
(* Analysis worker pool: split_and_analyze_by_board, src/ai.py             *)

\* default of parameter max_retry
max_retry == 3

\* the board ids the rows of the data file can carry
PoolBoards == {1, 2}
\* the data files: every sequence of at most MaxRows rows
DataFrames == UNION {[1..n -> PoolBoards] : n \in 0..MaxRows}

RECURSIVE SortedSeq(_)
\* the elements of a set of numbers, ascending
SortedSeq(S) ==
    IF S = {} THEN <<>>
    ELSE LET m == CHOOSE x \in S : \A y \in S : x <= y
         IN  <<m>> \o SortedSeq(S \ {m})

\* line 520: df.groupby('board_id') yields the groups by ascending key
GroupKeys(d) == SortedSeq({d[n] : n \in 1..Len(d)})

\* lines 520-521: the rows of board b (their positions in df), in df's order
Group(d, b) == SeqFilter([n \in 1..Len(d) |-> n], {n \in 1..Len(d) : d[n] = b})

\* math.ceil(a / b)
Ceil(a, b) == IF a % b = 0 THEN a \div b ELSE (a \div b) + 1

\* line 523
num_batches_floor(d, bs, b) == Len(Group(d, b)) \div bs
num_batches(d, bs, b) == Ceil(Len(Group(d, b)), bs)

\* line 525: group.iloc[i*batch_size : (i+1)*batch_size] for batch i, counted
\* from 1 here (i = idx + 1)
BatchRows(d, bs, b, i) ==
    LET group == Group(d, b)
        last == IF i * bs < Len(group) THEN i * bs ELSE Len(group)
    IN  SubSeq(group, (i - 1) * bs + 1, last)

\* the batches of a data file: <<board, i>>
BatchesOf(d, bs) ==
    {<<b, i>> : b \in PoolBoards, i \in 1..MaxRows} \cap
    {bt \in PoolBoards \X (1..MaxRows) :
        bt[1] \in {d[n] : n \in 1..Len(d)} /\ bt[2] <= num_batches(d, bs, bt[1])}

\* the batches of the data file read: the futures there are
Batches == DOMAIN task

\* The answers of the extraction capability to batch bt.
\* Rejected: None, the empty text, a text that begins with the failure marker
\* (what _get_ai_insights returns when its call fails, line 212), the same
\* after a blank line and leading blanks.
\* Accepted: prose and a fenced block of header and data row; a fenced block
\* of two data rows and no header line.
BatchTitle(bt, n) == "t" \o ToString(bt[1]) \o ToString(bt[2]) \o ToString(n)
DataRow(bt, n) == Line(0, <<BatchTitle(bt, n), ToString(bt[1])>>)
HeaderLine == Line(0, <<"TITLE", "BOARD_ID">>)
WellFormedOutput(bt) ==
    <<Line(0, <<"prose">>), Line(0, <<"FENCE_TSV">>), HeaderLine, DataRow(bt, 1),
      Line(0, <<"FENCE">>)>>
HeaderlessOutput(bt) ==
    <<Line(0, <<"FENCE_TSV">>), DataRow(bt, 1), DataRow(bt, 2), Line(0, <<"FENCE">>)>>
FailureOutput == <<Line(0, <<"AI_FAIL: e">>)>>
PaddedFailureOutput == <<Line(0, <<"">>), Line(1, <<"AI_FAIL: e">>)>>

Returns(r) == [raises |-> FALSE, result |-> r]
Raises == [raises |-> TRUE, result |-> NoneResult]
Outcomes(bt) ==
    {Raises, Returns(NoneResult), Returns(TextResult(<<>>)),
     Returns(TextResult(FailureOutput)), Returns(TextResult(PaddedFailureOutput)),
     Returns(TextResult(WellFormedOutput(bt))), Returns(TextResult(HeaderlessOutput(bt)))}

\* a future: "unsubmitted" | "queued" | "running" | "returned" | "raised";
\* calls belongs to the running invocation of analyze_batch (its loop over
\* attempt): for each call of the capability it has made, whether the answer
\* was accepted; it goes with the frame when the invocation returns.
\* collected says as_completed has yielded the future
NewTask == [status |-> "unsubmitted", result |-> NoneResult, calls |-> <<>>,
            collected |-> FALSE]

Running_none_counted(b) == {}
Running(b) == {bt \in Batches : bt[1] = b /\ task[bt].status = "running"}

\* line 535: the slot of batch_results a result goes to, for the batch of
\* index i when k futures were yielded before it
SlotIndex_completion_order(i, k) == k + 1
SlotIndex(i, k) == i

\* line 539: the results of a board that go to ai_outputs
KeepResult_all(r) == TRUE
KeepResult(r) ==
    /\ ~r.isNone
    /\ Len(r.text) > 0
    /\ ~StartsWithFail(TextFirstToken(r.text))

\* line 539, over the whole list of a board
CollectOutputs_all_or_nothing(results) ==
    IF \A n \in 1..Len(results) : KeepResult(results[n]) THEN results ELSE <<>>
CollectOutputs(results) ==
    SeqFilter(results, {n \in 1..Len(results) : KeepResult(results[n])})

\* lines 527-531: the with block and the as_completed loop end when every
\* future of the board has been yielded
AllCollected_without_waiting(b) == TRUE
AllCollected_never(b) == FALSE
AllCollected(b) == \A bt \in Batches : bt[1] = b => task[bt].collected

\* lines 506-518: the retry loop goes on after a rejected answer while
\* attempts remain
AttemptsLeft_one_more(calls_made) == calls_made < max_retry + 1
AttemptsLeft(calls_made) == calls_made < max_retry

\* line 512: an accepted answer ends the task
ReturnsOnAccept(calls_made) == TRUE

NoTable(kind) == [kind |-> kind, lines |-> <<>>]

PoolIdle ==
    /\ data_file = "ok"
    /\ df = <<>>
    /\ batch_size = 1
    /\ max_workers = 1
    /\ pool_pc = "done"
    /\ pool_board = 1
    /\ task = <<>>
    /\ batch_results = [b \in PoolBoards |-> <<>>]
    /\ slot_writes = <<>>
    /\ ai_outputs = <<>>
    /\ final_tsv = NoTable("none")

CrawlIdle ==
    /\ PAGES_PER_BOARD = 1
    /\ crawl_pc = "done"
    /\ board_pos = 1
    /\ page_num = 1
    /\ all_recent_posts = <<>>
    /\ crawl_result = <<>>
    /\ served = 0
    /\ trace = <<>>

InitPool ==
    /\ data_file \in {"ok", "missing", "unreadable"}
    /\ df = <<>>
    /\ batch_size \in 1..MaxBatchSize
    /\ max_workers \in 1..MaxWorkers
    /\ pool_pc = "read"
    /\ pool_board = 1
    /\ task = <<>>
    /\ batch_results = [b \in PoolBoards |-> <<>>]
    /\ slot_writes = <<>>
    /\ ai_outputs = <<>>
    /\ final_tsv = NoTable("none")

\* lines 490-499: the file is missing, cannot be read, or gives its rows
ReadFile ==
    /\ pool_pc = "read"
    /\ IF data_file = "ok"
       THEN \E d \in DataFrames :
               /\ df' = d
               /\ task' = [bt \in BatchesOf(d, batch_size) |-> NewTask]
               /\ slot_writes' = [bt \in BatchesOf(d, batch_size) |-> 0]
               /\ pool_pc' = "board"
               /\ UNCHANGED final_tsv
       ELSE /\ final_tsv' = NoTable(IF data_file = "missing" THEN "missing" ELSE "read_error")
            /\ pool_pc' = "done"
            /\ UNCHANGED <<df, task, slot_writes>>
    /\ UNCHANGED <<data_file, batch_size, max_workers, pool_board, batch_results, ai_outputs>>
    /\ UNCHANGED <<crawl_vars, soup_vars, parse_vars, extract_vars>>

\* lines 520-530: the next group; every batch of it is submitted to a new
\* executor, and batch_results is a list of None
SubmitBoard ==
    /\ pool_pc = "board"
    /\ pool_board <= Len(GroupKeys(df))
    /\ LET b == GroupKeys(df)[pool_board]
       IN  /\ task' = [bt \in Batches |->
                          IF bt[1] = b THEN [task[bt] EXCEPT !.status = "queued"]
                          ELSE task[bt]]
           /\ batch_results' = [batch_results EXCEPT
                                   ![b] = [i \in 1..num_batches(df, batch_size, b) |-> NoneResult]]
    /\ pool_pc' = "collect"
    /\ UNCHANGED <<data_file, df, batch_size, max_workers, pool_board, slot_writes,
                   ai_outputs, final_tsv>>
    /\ UNCHANGED <<crawl_vars, soup_vars, parse_vars, extract_vars>>

\* ThreadPoolExecutor (line 527): a worker takes the oldest queued task of its
\* executor while fewer than max_workers of its tasks run
StartTask(bt) ==
    /\ task[bt].status = "queued"
    /\ \A other \in Batches :
          (other[1] = bt[1] /\ task[other].status = "queued") => bt[2] <= other[2]
    /\ Cardinality(Running(bt[1])) < max_workers
    /\ task' = [task EXCEPT ![bt].status = "running"]
    /\ UNCHANGED <<data_file, df, batch_size, max_workers, pool_pc, pool_board,
                   batch_results, slot_writes, ai_outputs, final_tsv>>
    /\ UNCHANGED <<crawl_vars, soup_vars, parse_vars, extract_vars>>

\* line 504: analyze_batch raises before its retry loop (outside its try)
TaskRaises(bt) ==
    /\ task[bt].status = "running"
    /\ Len(task[bt].calls) = 0
    /\ task' = [task EXCEPT ![bt].status = "raised"]
    /\ UNCHANGED <<data_file, df, batch_size, max_workers, pool_pc, pool_board,
                   batch_results, slot_writes, ai_outputs, final_tsv>>
    /\ UNCHANGED <<crawl_vars, soup_vars, parse_vars, extract_vars>>

\* lines 506-518: one attempt of analyze_batch: the call of the capability,
\* the test of its answer, and the return when the answer is accepted or no
\* attempt is left
Attempt(bt) ==
    /\ task[bt].status = "running"
    /\ AttemptsLeft(Len(task[bt].calls))
    /\ \E out \in Outcomes(bt) :
        LET accepted == ~out.raises /\ IsAccepted(out.result)
            calls == Append(task[bt].calls, accepted)
        IN  task' = [task EXCEPT ![bt] =
                IF accepted /\ ReturnsOnAccept(Len(calls))
                THEN [status |-> "returned", result |-> out.result, calls |-> <<>>,
                      collected |-> FALSE]
                ELSE IF AttemptsLeft(Len(calls))
                     THEN [status |-> "running", result |-> NoneResult, calls |-> calls,
                           collected |-> FALSE]
                     ELSE [status |-> "returned", result |-> NoneResult, calls |-> <<>>,
                           collected |-> FALSE]]
    /\ UNCHANGED <<data_file, df, batch_size, max_workers, pool_pc, pool_board,
                   batch_results, slot_writes, ai_outputs, final_tsv>>
    /\ UNCHANGED <<crawl_vars, soup_vars, parse_vars, extract_vars>>

\* lines 531-537: as_completed yields a finished future of the board; its
\* result goes to its slot, its exception is printed
Collect(bt) ==
    /\ pool_pc = "collect"
    /\ bt[1] = GroupKeys(df)[pool_board]
    /\ task[bt].status \in {"returned", "raised"}
    /\ ~task[bt].collected
    /\ task' = [task EXCEPT ![bt].collected = TRUE]
    /\ IF task[bt].status = "returned"
       THEN LET k == Cardinality({o \in Batches : o[1] = bt[1] /\ task[o].collected})
                slot == SlotIndex(bt[2], k)
            IN  /\ batch_results' = [batch_results EXCEPT ![bt[1]][slot] = task[bt].result]
                /\ slot_writes' = [slot_writes EXCEPT ![<<bt[1], slot>>] = @ + 1]
       ELSE UNCHANGED <<batch_results, slot_writes>>
    /\ UNCHANGED <<data_file, df, batch_size, max_workers, pool_pc, pool_board,
                   ai_outputs, final_tsv>>
    /\ UNCHANGED <<crawl_vars, soup_vars, parse_vars, extract_vars>>

\* lines 531-539: the loop over the futures is over; the kept results of the
\* board are appended to ai_outputs and the executor is left
FinishBoard ==
    /\ pool_pc = "collect"
    /\ AllCollected(GroupKeys(df)[pool_board])
    /\ ai_outputs' = ai_outputs \o CollectOutputs(batch_results[GroupKeys(df)[pool_board]])
    /\ pool_board' = pool_board + 1
    /\ pool_pc' = "board"
    /\ UNCHANGED <<data_file, df, batch_size, max_workers, task, batch_results,
                   slot_writes, final_tsv>>
    /\ UNCHANGED <<crawl_vars, soup_vars, parse_vars, extract_vars>>

\* lines 541-544: after the last group, the merge; its IndexError leaves the
\* function
MergeResults ==
    /\ pool_pc = "board"
    /\ pool_board > Len(GroupKeys(df))
    /\ LET merged == merge_all_ai_tsv_results([n \in 1..Len(ai_outputs) |-> ai_outputs[n].text])
       IN  final_tsv' = IF merged.raised THEN NoTable("raised")
                        ELSE [kind |-> "table", lines |-> merged.lines]
    /\ pool_pc' = "done"
    /\ UNCHANGED <<data_file, df, batch_size, max_workers, pool_board, task,
                   batch_results, slot_writes, ai_outputs>>
    /\ UNCHANGED <<crawl_vars, soup_vars, parse_vars, extract_vars>>

\* lines 547-578: what analyze_and_notify does with the outcome of
\* split_and_analyze_by_board: the exception of the merge is not caught and
\* leaves analyze_and_notify, an error text or an empty text gives False, a
\* table gives True (a failure to save it is caught, lines 562-571)
analyze_and_notify(ai_analysis) ==
    CASE ai_analysis.kind = "raised" -> "raised"
      [] ai_analysis.kind \in {"missing", "read_error"} -> "False"
      [] ai_analysis.kind = "table" /\ Len(ai_analysis.lines) = 0 -> "False"
      [] ai_analysis.kind = "table" /\ Len(ai_analysis.lines) > 0 -> "True"
      [] OTHER -> "running"
NextPool ==
    \/ ReadFile
    \/ SubmitBoard
    \/ \E bt \in Batches : StartTask(bt)
    \/ \E bt \in Batches : TaskRaises(bt)
    \/ \E bt \in Batches : Attempt(bt)
    \/ \E bt \in Batches : Collect(bt)
    \/ FinishBoard
    \/ MergeResults

-----------------------------------------------------------------------------
(* merge_all_ai_tsv_results called on a list of worker outputs, src/ai.py    *)

\* the most outputs in a list handed to the merge
MaxOutputs == 3

\* lines of worker outputs
HeaderWithName == Line(0, <<"TITLE", "BOARD_ID", "BOARD_NAME">>)
HeaderNoBoardId == Line(0, <<"TITLE", "PRICE">>)
RowShared == Line(0, <<"ts", "2">>)
RowMapped == Line(0, <<"ta", "3">>)
RowUnmapped == Line(0, <<"tb", "1">>)
RowShort == Line(0, <<"tz">>)
RowNamed == Line(0, <<"td", "2", "name2">>)
Fenced(lines) == <<Line(0, <<"FENCE_TSV">>)>> \o lines \o <<Line(0, <<"FENCE">>)>>

\* the worker outputs the merge is tried on: blocks with a shared and a
\* unique row, a block found by its header line, a block without a header
\* line, a short row, a row twice, a header that has the name column, a header
\* without the id column, and texts that hold no block
MergeTexts ==
    {Fenced(<<HeaderLine, RowShared, RowMapped>>),
     Fenced(<<HeaderLine, RowShared, RowUnmapped>>),
     <<Line(0, <<"prose">>), HeaderLine, RowUnmapped>>,
     Fenced(<<RowMapped, RowUnmapped>>),
     Fenced(<<HeaderLine, RowShort, RowMapped>>),
     Fenced(<<HeaderLine, RowMapped, RowMapped>>),
     Fenced(<<HeaderWithName, RowNamed>>),
     Fenced(<<HeaderNoBoardId, RowShared>>),
     <<Line(0, <<"prose">>)>>,
     Fenced(<<Line(0, <<"AI_FAIL: e">>), Line(0, <<"">>)>>),
     FailureOutput,
     <<>>}

MergeInputs == UNION {[1..n -> MergeTexts] : n \in 0..MaxOutputs}

\* the call merge_all_ai_tsv_results(ai_outputs) is about to be made (line 542)
InitMerge ==
    /\ data_file = "ok"
    /\ df = <<>>
    /\ batch_size = 1
    /\ max_workers = 1
    /\ pool_pc = "board"
    /\ pool_board = 1
    /\ task = <<>>
    /\ batch_results = [b \in PoolBoards |-> <<>>]
    /\ slot_writes = <<>>
    /\ \E outputs \in MergeInputs :
          ai_outputs = [n \in 1..Len(outputs) |-> TextResult(outputs[n])]
    /\ final_tsv = NoTable("none")

InitMergeRun == InitMerge /\ CrawlIdle /\ SoupIdle /\ ParseIdle /\ ExtractIdle
SpecMerge == InitMergeRun /\ [][MergeResults]_vars

-----------------------------------------------------------------------------
(* The specifications *)

Init == InitCrawl /\ PoolIdle /\ SoupIdle /\ ParseIdle /\ ExtractIdle
Spec == Init /\ [][NextCrawl]_vars

InitPoolRun == InitPool /\ CrawlIdle /\ SoupIdle /\ ParseIdle /\ ExtractIdle
SpecPool == InitPoolRun /\ [][NextPool]_vars

\* the crawl with exceptions in the page body and the board body
SpecFault == Init /\ [][NextFault]_vars

InitSoupRun == InitSoup /\ CrawlIdle /\ PoolIdle /\ ParseIdle /\ ExtractIdle
SpecSoup == InitSoupRun /\ [][NextSoup]_vars

InitExtractRun == InitExtract /\ CrawlIdle /\ PoolIdle /\ SoupIdle /\ ParseIdle
SpecExtract == InitExtractRun /\ [][Extract]_vars

InitParseRun == InitParse /\ CrawlIdle /\ PoolIdle /\ SoupIdle /\ ExtractIdle
SpecParse == InitParseRun /\ [][NextParse]_vars

\* One unit of work, whichever, run to its end: a step that can be taken (a
\* call that returns or raises, a worker that goes on) is taken in the end.
\* PoolWork is NextPool without the call of the merge; MergeDue is
\* ENABLED MergeResults written out, and MergeFair is WF_vars(MergeResults)
\* with it: the step leaves MergeDue for good.
InitUnit == Init \/ InitPoolRun \/ InitSoupRun
NextUnit == NextCrawl \/ NextPool \/ NextSoup
PoolWork ==
    \/ ReadFile
    \/ SubmitBoard
    \/ \E bt \in Batches : StartTask(bt)
    \/ \E bt \in Batches : TaskRaises(bt)
    \/ \E bt \in Batches : Attempt(bt)
    \/ \E bt \in Batches : Collect(bt)
    \/ FinishBoard
MergeDue == pool_pc = "board" /\ pool_board > Len(GroupKeys(df))
MergeFair == []<>~MergeDue
SpecUnit ==
    /\ InitUnit /\ [][NextUnit]_vars
    /\ WF_vars(NextCrawl) /\ WF_vars(NextSoup) /\ WF_vars(PoolWork) /\ MergeFair

-----------------------------------------------------------------------------
(* What the history says, read off the trace alone *)

FetchIdx == {i \in 1..Len(trace) : trace[i].ev = "fetch"}
Fetched(b, p) == \E i \in FetchIdx : trace[i].board_id = b /\ trace[i].page = p
\* the fetch event of page p of board b (a page is fetched at most once)
FetchOf(b, p) == trace[CHOOSE i \in FetchIdx : trace[i].board_id = b /\ trace[i].page = p]
Boards == {board_ids[i] : i \in 1..Len(board_ids)}
Pos(b) == CHOOSE i \in 1..Len(board_ids) : board_ids[i] = b
\* the page yielded zero posts: the fetch failed or the page held no post
YieldedNoPosts(e) == ~e.soup.ok \/ Len(e.soup.divs) = 0
\* the page is non-empty and holds no post with date >= cutoff
NonEmptyAllOld(e) ==
    /\ e.soup.ok
    /\ Len(e.soup.divs) > 0
    /\ \A j \in 1..Len(e.soup.divs) : e.soup.divs[j] < cutoff_date
\* the crawl of board b is over
BoardOver(b) ==
    \/ crawl_pc \in {"return", "done"}
    \/ board_pos > Pos(b)
    \/ board_pos = Pos(b) /\ crawl_pc = "board_end"

-----------------------------------------------------------------------------
(* Claims about the crawl, checked under Spec *)

\* C1: a fetched page that is non-empty and holds no post with date >= cutoff
\* ends its board: no later page of that board is ever fetched, and right
\* after the page the controller is at the end of the board.
C1_StaleStopsBoard ==
    \A i \in FetchIdx :
        NonEmptyAllOld(trace[i]) =>
            /\ \A j \in FetchIdx :
                  trace[j].board_id = trace[i].board_id => trace[j].page <= trace[i].page
            /\ BoardOver(trace[i].board_id)

\* C1 witness: the crawl is over, page 2 of some board was the first stale
\* page, the page limit allowed a page 3, and page 3 was not fetched.
C1_Witness ==
    /\ crawl_pc = "done"
    /\ PAGES_PER_BOARD = 3
    /\ \E b \in Boards :
        /\ Fetched(b, 2)
        /\ NonEmptyAllOld(FetchOf(b, 2))
        /\ ~NonEmptyAllOld(FetchOf(b, 1))
        /\ ~Fetched(b, 3)

\* C2: when page 1 of a board yields zero posts, page 2 of that board is
\* never fetched, the board is over, and page 1 of the next board is the
\* next page fetched.
C2_EmptyFirstPageStopsBoard ==
    \A i \in FetchIdx :
        (trace[i].page = 1 /\ YieldedNoPosts(trace[i])) =>
            /\ ~Fetched(trace[i].board_id, 2)
            /\ BoardOver(trace[i].board_id)
            /\ \A j \in FetchIdx :
                  (j > i /\ \A k \in FetchIdx : ~(i < k /\ k < j)) =>
                      /\ Pos(trace[i].board_id) < Len(board_ids)
                      /\ trace[j].board_id = board_ids[Pos(trace[i].board_id) + 1]
                      /\ trace[j].page = 1
            /\ (crawl_pc = "done" /\ Pos(trace[i].board_id) < Len(board_ids)) =>
                  Fetched(board_ids[Pos(trace[i].board_id) + 1], 1)

\* C2 witness: the fetch of page 1 of the first board failed, the page limit
\* allowed a page 2, and the crawl went on to page 1 of the second board.
C2_Witness ==
    /\ PAGES_PER_BOARD >= 2
    /\ Fetched(board_ids[1], 1)
    /\ ~FetchOf(board_ids[1], 1).soup.ok
    /\ Fetched(board_ids[2], 1)

\* C3 as the specification states it: once a board is over, every fetched
\* page k < PAGES_PER_BOARD was followed by page k+1 unless page 1 yielded
\* zero posts or page k was non-empty with every post older than the cutoff.
C3_Original ==
    \A b \in Boards : \A k \in 1..(PAGES_PER_BOARD - 1) :
        (/\ BoardOver(b)
         /\ Fetched(b, k)
         /\ ~YieldedNoPosts(FetchOf(b, 1))
         /\ ~NonEmptyAllOld(FetchOf(b, k))) => Fetched(b, k + 1)

\* C3, amended: once a board is over, every fetched page k < PAGES_PER_BOARD
\* was followed by page k+1 unless page k itself (the first page or a later
\* one) yielded zero posts or was non-empty with every post older than the
\* cutoff; a board none of whose pages met either condition has all pages
\* 1..PAGES_PER_BOARD fetched.
C3_ContinuesUnlessStopped ==
    \A b \in Boards :
        /\ \A k \in 1..(PAGES_PER_BOARD - 1) :
            (/\ BoardOver(b)
             /\ Fetched(b, k)
             /\ ~YieldedNoPosts(FetchOf(b, k))
             /\ ~NonEmptyAllOld(FetchOf(b, k))) => Fetched(b, k + 1)
        /\ (/\ BoardOver(b)
            /\ Fetched(b, 1)
            /\ \A i \in FetchIdx :
                  trace[i].board_id = b =>
                      ~YieldedNoPosts(trace[i]) /\ ~NonEmptyAllOld(trace[i]))
           => \A p \in 1..PAGES_PER_BOARD : Fetched(b, p)

\* C3 witness: a board is over with all of pages 1..3 fetched (Exhausted),
\* its page 1 mixing a post older than the cutoff with an accepted one.
C3_Witness ==
    /\ PAGES_PER_BOARD = 3
    /\ \E b \in Boards :
        /\ BoardOver(b)
        /\ \A p \in 1..3 : Fetched(b, p)
        /\ \E j \in 1..Len(FetchOf(b, 1).soup.divs) :
              FetchOf(b, 1).soup.divs[j] < cutoff_date

\* C4: the list built (and, at the end, returned) holds exactly the posts
\* with date >= cutoff of the pages fetched: every element has date >= cutoff
\* and is a post of a fetched page, every post with date >= cutoff of a
\* fetched page is an element, and the elements are in discovery order
\* (board position, then page, then position on the page) without repeats.
PostBefore(x, y) ==
    \/ Pos(x.board_id) < Pos(y.board_id)
    \/ x.board_id = y.board_id /\ x.page < y.page
    \/ x.board_id = y.board_id /\ x.page = y.page /\ x.post_id < y.post_id

C4_RecentPostsExact ==
    LET got == IF crawl_pc = "done" THEN crawl_result ELSE all_recent_posts
    IN  /\ \A n \in 1..Len(got) :
            /\ got[n].date >= cutoff_date
            /\ \E i \in FetchIdx :
                /\ trace[i].soup.ok
                /\ trace[i].board_id = got[n].board_id
                /\ trace[i].page = got[n].page
                /\ got[n].post_id \in 1..Len(trace[i].soup.divs)
                /\ trace[i].soup.divs[got[n].post_id] = got[n].date
        /\ \A i \in FetchIdx : \A j \in 1..Len(trace[i].soup.divs) :
            (trace[i].soup.ok /\ trace[i].soup.divs[j] >= cutoff_date) =>
                \E n \in 1..Len(got) :
                    got[n] = [board_id |-> trace[i].board_id, page |-> trace[i].page,
                              post_id |-> j, date |-> trace[i].soup.divs[j]]
        /\ \A m, n \in 1..Len(got) : m < n => PostBefore(got[m], got[n])

\* C4 witness: the crawl returned a list holding a post dated exactly at the
\* cutoff, from a page that also held an older post, and posts of both boards.
C4_Witness ==
    /\ crawl_pc = "done"
    /\ \E m, n \in 1..Len(crawl_result) :
        /\ crawl_result[m].board_id /= crawl_result[n].board_id
        /\ crawl_result[m].date = cutoff_date
    /\ \E i \in FetchIdx : \E j, k \in 1..Len(trace[i].soup.divs) :
        trace[i].soup.divs[j] < cutoff_date /\ trace[i].soup.divs[k] >= cutoff_date

-----------------------------------------------------------------------------
(* Claims about the worker pool, checked under SpecPool *)

\* the task of batch bt returned a result (not None)
Succeeded(bt) == task[bt].status = "returned" /\ ~task[bt].result.isNone
\* the task of batch bt returned None after its attempts
Absent(bt) == task[bt].status = "returned" /\ task[bt].result.isNone
\* board b has left its executor: its results are in ai_outputs
BoardFinished(b) ==
    \/ pool_pc = "done" /\ final_tsv.kind \in {"table", "raised"}
    \/ pool_pc \in {"board", "collect"} /\ \E n \in 1..Len(GroupKeys(df)) :
          GroupKeys(df)[n] = b /\ n < pool_board
\* positions of result r in ai_outputs
PositionsOf(r) == {n \in 1..Len(ai_outputs) : ai_outputs[n] = r}
\* the text begins, after blank lines, blanks and tabs, with the failure marker
FailureMarked(text) ==
    \E n \in 1..Len(text) : \E k \in 1..Len(text[n].fields) :
        /\ text[n].fields[k] \in {"AI_FAIL", "AI_FAIL: e"}
        /\ \A j \in 1..(k - 1) : text[n].fields[j] = ""
        /\ \A m \in 1..(n - 1) : \A j \in 1..Len(text[m].fields) : text[m].fields[j] = ""

\* a step in which the running invocation of analyze_batch for bt calls the
\* capability (it goes on running with one more call made, or it returns)
CallStep(bt) ==
    /\ task[bt].status = "running"
    /\ task'[bt] /= task[bt]
    /\ ~(task'[bt].status = "raised" /\ Len(task[bt].calls) = 0)

\* C5: every call of the capability for a batch is one of the first
\* max_retry calls and follows no accepted answer; after a call the task
\* runs on or has returned (it has not raised); it runs on only when fewer
\* than max_retry calls have been made, and it returns None only after the
\* call of number max_retry.
C5_BoundedRetry ==
    [][\A bt \in Batches :
          CallStep(bt) =>
              /\ Len(task[bt].calls) < max_retry
              /\ \A n \in 1..Len(task[bt].calls) : ~task[bt].calls[n]
              /\ task'[bt].status \in {"running", "returned"}
              /\ task'[bt].status = "running" =>
                    /\ Len(task'[bt].calls) = Len(task[bt].calls) + 1
                    /\ Len(task'[bt].calls) < max_retry
                    /\ ~task'[bt].calls[Len(task'[bt].calls)]
              /\ (task'[bt].status = "returned" /\ task'[bt].result.isNone) =>
                    Len(task[bt].calls) + 1 = max_retry]_vars

\* C5 witness: one batch has returned None (it was rejected max_retry
\* times), another has returned an accepted answer, and a third has made
\* max_retry - 1 rejected calls and is still running, its last call ahead.
C5_Witness ==
    \E a, b, c \in Batches :
        /\ Absent(a)
        /\ Succeeded(b)
        /\ task[c].status = "running"
        /\ Len(task[c].calls) = max_retry - 1

\* C6: every slot of batch_results is assigned at most once; a slot that
\* holds a result holds the result of the batch of its own index; and the
\* results of one board stand in ai_outputs in ascending batch index (each
\* once), whatever the order in which the futures finished.
C6_SubmissionOrder ==
    /\ \A bt \in Batches : slot_writes[bt] <= 1
    /\ \A b \in PoolBoards : \A i \in 1..Len(batch_results[b]) :
          ~batch_results[b][i].isNone =>
              /\ <<b, i>> \in Batches
              /\ Succeeded(<<b, i>>)
              /\ task[<<b, i>>].collected
              /\ batch_results[b][i] = task[<<b, i>>].result
    /\ \A n \in 1..Len(ai_outputs) :
          \E bt \in Batches : Succeeded(bt) /\ task[bt].result = ai_outputs[n]
    /\ \A x, y \in Batches :
          (x[1] = y[1] /\ x[2] < y[2] /\ Succeeded(x) /\ Succeeded(y)) =>
              \A m \in PositionsOf(task[x].result) :
                  \A n \in PositionsOf(task[y].result) : m < n
    /\ \A x \in Batches : Succeeded(x) => Cardinality(PositionsOf(task[x].result)) <= 1

\* C6 witness: the future of batch 2 of a board has been yielded, and its
\* result stored, while batch 1 of that board, already called once, is
\* still running.
C6_Witness ==
    \E b \in PoolBoards :
        /\ <<b, 2>> \in Batches
        /\ task[<<b, 2>>].collected
        /\ ~batch_results[b][2].isNone
        /\ task[<<b, 1>>].status = "running"
        /\ Len(task[<<b, 1>>].calls) > 0

\* the lines of a text that are data rows: their first field is a title
Titles == {BatchTitle(bt, n) : bt \in PoolBoards \X (1..MaxRows), n \in 1..2}
DataRowsOf(text) == {text[n] : n \in {m \in 1..Len(text) : text[m].fields[1] \in Titles}}
\* line l with field k left out
WithoutField(l, k) ==
    Line(l.lead, SubSeq(l.fields, 1, k - 1) \o SubSeq(l.fields, k + 1, Len(l.fields)))
\* the row stands in the table, as it is or with one more field (the board name)
RowAppears(row, lines) ==
    \E m \in 1..Len(lines) :
        \/ lines[m] = row
        \/ \E k \in 1..Len(lines[m].fields) : WithoutField(lines[m], k) = row

\* C7: when the run is over, every batch that was accepted on some attempt
\* (after any number of rejected attempts) has its result in the input of
\* the merge, and every data row of that result stands in the merged table.
C7_RetriedResultMerged ==
    (pool_pc = "done" /\ final_tsv.kind \in {"table", "raised"}) =>
        \A bt \in Batches :
            Succeeded(bt) =>
                /\ PositionsOf(task[bt].result) /= {}
                /\ final_tsv.kind = "table"
                /\ \A row \in DataRowsOf(task[bt].result.text) :
                      RowAppears(row, final_tsv.lines)

\* C7, first half: when the run is over, every batch that was accepted on
\* some attempt has its result in the input of the merge.
C7_RetriedResultInMergeInput ==
    (pool_pc = "done" /\ final_tsv.kind \in {"table", "raised"}) =>
        \A bt \in Batches : Succeeded(bt) => PositionsOf(task[bt].result) /= {}

\* C8: every element of the list handed to the merge is a text (not None),
\* is not empty, and does not begin, after leading blanks, with the failure
\* marker.
C8_OnlyAcceptedReachMerger ==
    \A n \in 1..Len(ai_outputs) :
        /\ ~ai_outputs[n].isNone
        /\ Len(ai_outputs[n].text) > 0
        /\ ~FailureMarked(ai_outputs[n].text)

\* C8 witness: the merge has run on a list that holds the result of one
\* batch while another batch of the same board, rejected max_retry times, is
\* absent and has no element in the list.
C8_Witness ==
    /\ pool_pc = "done"
    /\ final_tsv.kind = "table"
    /\ \E a, b \in Batches :
        /\ a[1] = b[1]
        /\ Absent(a)
        /\ Succeeded(b)
        /\ Len(ai_outputs) = 1
        /\ ai_outputs[1] = task[b].result

\* C9: whatever became of the other batches, every batch of a board that has
\* left its executor was attempted (its task ran to its return or to its
\* exception), and every batch that was accepted has its result in
\* ai_outputs; at the end this holds of every batch of every board.
C9_FailureIsolation ==
    /\ \A bt \in Batches :
          BoardFinished(bt[1]) =>
              /\ task[bt].status \in {"returned", "raised"}
              /\ Succeeded(bt) => PositionsOf(task[bt].result) /= {}
    /\ (pool_pc = "done" /\ final_tsv.kind \in {"table", "raised"}) =>
          \A b \in PoolBoards : (\E n \in 1..Len(df) : df[n] = b) => BoardFinished(b)

\* C9 witness: the run is over; a batch of the first board failed for good
\* (absent after max_retry calls, or its task raised), and the results of
\* its sibling and of a batch of the other board are both in ai_outputs.
C9_Witness ==
    /\ pool_pc = "done"
    /\ \E a, b, c \in Batches :
        /\ a[1] = b[1] /\ a /= b /\ c[1] /= a[1]
        /\ Absent(a) \/ task[a].status = "raised"
        /\ Succeeded(b) /\ PositionsOf(task[b].result) /= {}
        /\ Succeeded(c) /\ PositionsOf(task[c].result) /= {}

\* C10 as the specification states it: the pool spans boards, so whenever a
\* batch of one board is running and fewer than max_workers batches run, a
\* batch of another board that has not started yet can be started.
C10_Original ==
    \A x, y \in Batches :
        (/\ x[1] /= y[1]
         /\ task[x].status = "running"
         /\ Cardinality({bt \in Batches : task[bt].status = "running"}) < max_workers
         /\ task[y].status \in {"unsubmitted", "queued"}) => ENABLED StartTask(y)

\* C10, amended: batches of different boards are never in flight together.
\* The batches of a board are submitted only after every batch of every
\* earlier board has finished and been collected; only batches of one board
\* run at the same time.
C10_OneBoardAtATime ==
    \A x, y \in Batches :
        (x[1] < y[1] /\ task[y].status /= "unsubmitted") =>
            /\ task[x].status \in {"returned", "raised"}
            /\ task[x].collected

\* C10 witness: two batches of one board run at the same time while the
\* batches of the other board have not been submitted.
C10_Witness ==
    \E x, y, z \in Batches :
        /\ x[1] = y[1] /\ x /= y /\ z[1] /= x[1]
        /\ task[x].status = "running" /\ task[y].status = "running"
        /\ task[z].status = "unsubmitted"

\* C11: at every moment at most max_workers batches are being processed
\* (their analyze_batch is running in a worker), however many are submitted.
C11_BoundedWorkers ==
    Cardinality({bt \in Batches : task[bt].status = "running"}) <= max_workers

\* C11 witness: max_workers batches (two or more) are running while another
\* submitted batch waits in the queue of the executor.
C11_Witness ==
    /\ max_workers >= 2
    /\ Cardinality({bt \in Batches : task[bt].status = "running"}) = max_workers
    /\ \E bt \in Batches : task[bt].status = "queued"

-----------------------------------------------------------------------------
(* Claims about the merge, checked under SpecMerge *)

\* the call of merge_all_ai_tsv_results is over
MergeOver == pool_pc = "done"
\* the texts the merge was called on
MergeInput == [n \in 1..Len(ai_outputs) |-> ai_outputs[n].text]
\* no text of the input holds an extractable block
NoBlockAtAll == \A n \in 1..Len(MergeInput) : extract_tsv_from_ai_output(MergeInput[n]) = <<>>

\* C12: when no worker output holds an extractable block (the empty list of
\* outputs included), the merge returns a table that is empty or has only a
\* header line; it does not raise.
C12_NoBlockGivesEmptyTable ==
    (MergeOver /\ NoBlockAtAll) =>
        /\ final_tsv.kind = "table"
        /\ Len(final_tsv.lines) <= 1

\* the lines of a block that are data rows: those that do not begin with the
\* header signature
BlockDataRows(block) ==
    SeqFilter(block, {n \in 1..Len(block) : ~StartsWithHeaderSig(FirstToken(block[n]))})

RECURSIVE DataRowsUpTo(_)
\* the data rows of the blocks of the first n outputs, block after block
DataRowsUpTo(n) ==
    IF n = 0 THEN <<>>
    ELSE DataRowsUpTo(n - 1) \o BlockDataRows(extract_tsv_from_ai_output(MergeInput[n]))

\* the data rows of all blocks in first-seen order, each exact duplicate
\* after its first occurrence left out
FirstSeenRows ==
    LET rows == DataRowsUpTo(Len(MergeInput))
    IN  SeqFilter(rows, {n \in 1..Len(rows) : \A m \in 1..(n - 1) : rows[m] /= rows[n]})

\* line l of the table is the row, as it is or with one more field (the name)
IsRow(l, row) == l = row \/ \E k \in 1..Len(l.fields) : WithoutField(l, k) = row

\* the data rows of the merged table are FirstSeenRows
TableRowsAreFirstSeenRows ==
    /\ final_tsv.kind = "table"
    /\ Len(final_tsv.lines) = Len(FirstSeenRows) + 1
    /\ \A m \in 1..Len(FirstSeenRows) : IsRow(final_tsv.lines[m + 1], FirstSeenRows[m])

\* every block of the input begins with a header line of its own
EveryBlockHasHeader ==
    \A n \in 1..Len(MergeInput) :
        LET block == extract_tsv_from_ai_output(MergeInput[n])
        IN  block /= <<>> => StartsWithHeaderSig(FirstToken(block[1]))

\* C13: the data rows of the merged table are the data rows of all extracted
\* blocks in first-seen order (block order, then line order), every exact
\* duplicate after its first occurrence removed.
C13_FirstSeenOrderDedup ==
    (MergeOver /\ ~NoBlockAtAll) => TableRowsAreFirstSeenRows

\* C13, for inputs whose blocks all begin with a header line of their own:
\* the data rows of the merged table are the first-seen rows, and the two
\* outputs with one shared row and one row of their own give 3 data rows.
C13_FirstSeenOrderDedupWithHeaders ==
    (MergeOver /\ ~NoBlockAtAll /\ EveryBlockHasHeader) =>
        /\ TableRowsAreFirstSeenRows
        /\ MergeInput = <<Fenced(<<HeaderLine, RowShared, RowMapped>>),
                          Fenced(<<HeaderLine, RowShared, RowUnmapped>>)>>
              => Len(final_tsv.lines) = 1 + 3

\* the outputs of the input that yield a non-empty block
WithBlock == {n \in 1..Len(MergeInput) : extract_tsv_from_ai_output(MergeInput[n]) /= <<>>}
\* the first of them
FirstWithBlock == CHOOSE n \in WithBlock : \A m \in WithBlock : n <= m

IdColumns == {k \in 1..Len(final_tsv.lines[1].fields) : final_tsv.lines[1].fields[k] = "BOARD_ID"}
\* the first of them
IdColumn == CHOOSE k \in IdColumns : \A j \in IdColumns : k <= j
\* the table has a header line with the board-id column
TableWithIdColumn ==
    MergeOver /\ final_tsv.kind = "table" /\ IdColumns /= {}

\* C15: when the header has the board-id column, in every data row of the
\* table that has a board-id field the next field is the name the lookup
\* table gives for the id, or the id itself when the table has no such key.
C15_NameFollowsId ==
    TableWithIdColumn =>
        \A m \in 2..Len(final_tsv.lines) :
            LET fields == final_tsv.lines[m].fields
            IN  Len(fields) >= IdColumn =>
                    /\ Len(fields) > IdColumn
                    /\ fields[IdColumn] \in DOMAIN BOARD_ID_NAME_MAP =>
                          fields[IdColumn + 1] = BOARD_ID_NAME_MAP[fields[IdColumn]]
                    /\ fields[IdColumn] \notin DOMAIN BOARD_ID_NAME_MAP =>
                          fields[IdColumn + 1] = fields[IdColumn]

\* C15 witness: a table with a row whose id is a key of the lookup table and
\* a row whose id is not.
C15_Witness ==
    /\ TableWithIdColumn
    /\ \E m \in 2..Len(final_tsv.lines) : final_tsv.lines[m].fields = <<"ta", "3", "name3">>
    /\ \E m \in 2..Len(final_tsv.lines) : final_tsv.lines[m].fields = <<"tb", "1", "1">>

\* C16: when the header has the board-id column, every data row of the
\* table, whatever its number of fields, has a value in the board-name
\* column (the column after the board-id column).
C16_NameAlwaysPopulated ==
    TableWithIdColumn =>
        \A m \in 2..Len(final_tsv.lines) :
            /\ Len(final_tsv.lines[m].fields) > IdColumn
            /\ final_tsv.lines[m].fields[IdColumn + 1] /= ""

-----------------------------------------------------------------------------
(* Claim about analyze_and_notify, checked under SpecPool *)

\* C17: when split_and_analyze_by_board is over, analyze_and_notify returns
\* False if the data file is missing or cannot be read, and only then; when
\* the file was read it returns True, whatever batches failed for good, and
\* no exception leaves it.
C17_FailsOnlyOnUnreadableInput ==
    pool_pc = "done" =>
        /\ data_file \in {"missing", "unreadable"} => analyze_and_notify(final_tsv) = "False"
        /\ data_file = "ok" => analyze_and_notify(final_tsv) = "True"

\* C17, as far as it holds: when the file was read and some result in
\* ai_outputs holds a block, analyze_and_notify returns True, also when other
\* batches failed for good; when the file is missing or unreadable it returns
\* False.
C17_SuccessWhenSomeBlock ==
    pool_pc = "done" =>
        /\ data_file \in {"missing", "unreadable"} => analyze_and_notify(final_tsv) = "False"
        /\ (data_file = "ok" /\ ~NoBlockAtAll) => analyze_and_notify(final_tsv) = "True"

-----------------------------------------------------------------------------
(* Claims about get_soup, checked under SpecSoup *)

\* the positions of the calls of session.get in the history
Gets == {i \in 1..Len(soup_log) : soup_log[i].ev = "get"}
\* the positions of the backoff waits
Sleeps == {i \in 1..Len(soup_log) : soup_log[i].ev = "sleep"}

\* C18: one call of get_soup makes at most max_retries calls of session.get,
\* whatever the outcomes of the calls are.
C18_AtMostMaxRetriesAttempts == Cardinality(Gets) <= MAX_RETRIES

\* C18, as far as it holds: one call of get_soup makes at most max_retries + 1
\* calls of session.get.
C18_AtMostOneMoreAttempt == Cardinality(Gets) <= MAX_RETRIES + 1

\* a response whose status is neither 200 nor one to retry on
IsFinalStatus(e) ==
    /\ e.ev = "get"
    /\ e.outcome.kind = "response"
    /\ e.outcome.status /= 200
    /\ e.outcome.status \notin RETRY_STATUS_CODES

\* C19: a response with a status that is neither 200 nor in
\* RETRY_STATUS_CODES is the last event of the call: get_soup has returned
\* None, and neither a wait nor a request follows it.
C19_FinalStatusReturnsAtOnce ==
    \A i \in 1..Len(soup_log) :
        IsFinalStatus(soup_log[i]) =>
            /\ i = Len(soup_log)
            /\ soup_pc = "done"
            /\ soup_result = "None"

\* C19 witness: after a request that was retried (a wait follows it), a
\* request is answered with status 404 and get_soup has returned None.
C19_Witness ==
    /\ soup_pc = "done"
    /\ Len(soup_log) = 3
    /\ soup_log[2].ev = "sleep"
    /\ IsFinalStatus(soup_log[3])
    /\ soup_result = "None"

-----------------------------------------------------------------------------
(* Claims about the crawl under faults, checked under SpecFault *)

\* the positions of the caught exceptions in the history
Errors == {i \in 1..Len(trace) : trace[i].ev \in {"page_error", "board_error"}}

\* page 1 of the board was fetched
FirstPageFetched(board_id) ==
    \E i \in 1..Len(trace) :
        /\ trace[i].ev = "fetch"
        /\ trace[i].board_id = board_id
        /\ trace[i].page = 1

\* list s is the beginning of list t
StartsWith(t, s) == Len(s) <= Len(t) /\ SubSeq(t, 1, Len(s)) = s

\* C20: an exception raised in the body of the page loop or of the board loop
\* does not end the crawl. The posts accepted when it was caught stay at the
\* front of all_recent_posts; and once scrape_recent_posts has returned,
\* page 1 of every board of board_ids has been fetched and the returned list
\* begins with the posts accepted at each exception.
C20_ExceptionsNeverAbort ==
    /\ \A i \in Errors : StartsWith(all_recent_posts, trace[i].accepted)
    /\ crawl_pc = "done" =>
          /\ \A bp \in 1..Len(board_ids) : FirstPageFetched(board_ids[bp])
          /\ \A i \in Errors : StartsWith(crawl_result, trace[i].accepted)

\* C20 witness: the crawl has returned after an exception in the scan of
\* page 1 of the first board, raised when a post had been accepted; page 1
\* of the second board was fetched after it, and a post was accepted after it.
C20_Witness ==
    /\ crawl_pc = "done"
    /\ \E i \in Errors :
          /\ trace[i].ev = "page_error"
          /\ trace[i].board_id = board_ids[1]
          /\ trace[i].page = 1
          /\ Len(trace[i].accepted) >= 1
          /\ Len(crawl_result) > Len(trace[i].accepted)
          /\ \E j \in (i + 1)..Len(trace) :
                /\ trace[j].ev = "fetch"
                /\ trace[j].board_id = board_ids[2]
                /\ trace[j].page = 1

-----------------------------------------------------------------------------
(* Claims about the batches, checked under SpecPool *)

\* the batch indices of board b
BatchIndices(b) == {bt[2] : bt \in {x \in Batches : x[1] = b}}

\* the rows of batches 1..k of board b, one batch after the other
RECURSIVE BatchesJoined(_, _)
BatchesJoined(b, k) ==
    IF k = 0 THEN <<>>
    ELSE BatchesJoined(b, k - 1) \o BatchRows(df, batch_size, b, k)

\* the rows of board b in the order of the data file: the positions n with
\* df[n] = b, ascending
RowsInFileOrder(rows, b) ==
    /\ {rows[j] : j \in 1..Len(rows)} = {n \in 1..Len(df) : df[n] = b}
    /\ \A j \in 1..Len(rows) : \A k \in 1..Len(rows) : j < k => rows[j] < rows[k]

\* C21: a board of N rows is split with batch size B into exactly ceil(N/B)
\* batches (the least k with k * B >= N), numbered 1..k, each with at least
\* one and at most B rows, and the batches one after the other are the rows
\* of the board in the order of the data file.
C21_BatchesPartitionGroup ==
    \A b \in PoolBoards :
        LET N == Cardinality({n \in 1..Len(df) : df[n] = b})
            k == Cardinality(BatchIndices(b))
        IN  /\ BatchIndices(b) = 1..k
            /\ k * batch_size >= N
            /\ (k - 1) * batch_size < N \/ k = 0
            /\ \A i \in 1..k :
                  /\ Len(BatchRows(df, batch_size, b, i)) >= 1
                  /\ Len(BatchRows(df, batch_size, b, i)) <= batch_size
            /\ RowsInFileOrder(BatchesJoined(b, k), b)
            /\ Len(BatchesJoined(b, k)) = N

\* C21 witness: the run has ended for a file in which a board has more rows
\* than a batch takes and a number of rows batch_size does not divide
C21_Witness ==
    /\ pool_pc = "done"
    /\ batch_size = 2
    /\ \E b \in PoolBoards :
          /\ Len(Group(df, b)) = 3
          /\ BatchIndices(b) = {1, 2}
          /\ Len(BatchRows(df, batch_size, b, 2)) = 1

-----------------------------------------------------------------------------
(* Claims about the page parser, checked under SpecParse *)

\* the record parse_board_page returned for container i, if any
RecordsOf(i) == {k \in 1..Len(posts_data) : posts_data[k].idx = i}

\* the container has no date: no date text, or a text that does not parse
LacksDate(c) == ~c.hasDate \/ PostDatetime(c, now_year).isNone

\* C22: every record parse_board_page returns has a non-empty title and a
\* parsed date, and a container without a title or without a date has no
\* record in the result.
C22_RecordsHaveTitleAndDate ==
    parse_pc = "page_done" =>
        /\ \A k \in 1..Len(posts_data) :
              posts_data[k].title /= "" /\ ~posts_data[k].date.isNone
        /\ \A i \in 1..Len(post_divs) :
              (post_divs[i].title = "" \/ LacksDate(post_divs[i])) => RecordsOf(i) = {}

\* C22 witness: of a page of two containers the first has a title and a date
\* text that does not parse and gives no record; the second gives one.
C22_Witness ==
    /\ parse_pc = "page_done"
    /\ Len(post_divs) = 2
    /\ post_divs[1].title /= "" /\ post_divs[1].hasDate /\ ~post_divs[1].raises
    /\ RecordsOf(1) = {}
    /\ RecordsOf(2) /= {}

\* the strategies of parse_date_string in their listed order: the eight
\* formats, then the two patterns
Strategy(k, n, now) ==
    IF k <= 8 THEN Strptime(n, date_formats[k], now)
    ELSE IF PatternMatches(n, k - 8) THEN FromPattern(n, k - 8, now)
    ELSE NoneDate
\* the strategies that succeed on the normalised date_str
Succeeding == {k \in 1..10 : ~Strategy(k, Normalise(date_str), now_year).isNone}
FirstSucceeding == CHOOSE k \in Succeeding : \A j \in Succeeding : k <= j

\* C24: parse_date_string returns what the first strategy that succeeds
\* gives, the strategies taken in their listed order, and None when none
\* succeeds; a container whose date text gives None has no record in the
\* result of parse_board_page.
C24_FirstStrategyWins ==
    /\ parse_pc = "date_done" =>
          IF Succeeding = {}
          THEN date_result = NoneDate
          ELSE date_result = Strategy(FirstSucceeding, Normalise(date_str), now_year)
    /\ parse_pc = "page_done" =>
          \A i \in 1..Len(post_divs) :
              (post_divs[i].hasDate /\ PostDatetime(post_divs[i], now_year) = NoneDate)
                  => RecordsOf(i) = {}

\* C24 witness: parse_date_string has returned for a string on which two
\* strategies succeed with different dates
C24_Witness ==
    /\ parse_pc = "date_done"
    /\ \E k \in Succeeding :
          Strategy(k, Normalise(date_str), now_year) /= date_result
    /\ ~date_result.isNone

-----------------------------------------------------------------------------
(* Claims about termination, checked under SpecUnit *)

\* every unit of work has ended
Terminated == crawl_pc = "done" /\ pool_pc = "done" /\ soup_pc = "done"

\* the future of the batch is done: analyze_batch returned or raised
BatchTerminal(bt) == task[bt].status \in {"returned", "raised"}

\* the page fetches of a board
FetchesOfBoard(board_id) ==
    {i \in 1..Len(trace) : trace[i].ev = "fetch" /\ trace[i].board_id = board_id}

\* what holds of the units at every moment: get_soup has made no more than
\* max_retries + 1 requests; no board has had more than PAGES_PER_BOARD
\* fetches; once the merge has been called every batch is terminal, and once
\* the analysis of a readable file has ended every batch has been collected
UnitsBounded ==
    /\ Cardinality({i \in 1..Len(soup_log) : soup_log[i].ev = "get"}) <= MAX_RETRIES + 1
    /\ \A bp \in 1..Len(board_ids) :
          Cardinality(FetchesOfBoard(board_ids[bp])) <= PAGES_PER_BOARD
    /\ final_tsv.kind \in {"table", "raised"} =>
          \A bt \in Batches : BatchTerminal(bt)
    /\ pool_pc = "done" =>
          \A bt \in Batches : BatchTerminal(bt) /\ task[bt].collected

\* C23: every unit of work reaches a terminal state: the call of get_soup
\* returns, the crawl returns, the analysis ends with every batch returned or
\* raised, and until then the bounds of UnitsBounded hold.
C23_UnitsTerminate == <>Terminated /\ []UnitsBounded

\* C23 witness: the analysis of a file of two boards has ended; a batch was
\* given up (absent) and another was accepted
C23_Witness ==
    /\ pool_pc = "done"
    /\ final_tsv.kind = "table"
    /\ Cardinality({bt[1] : bt \in Batches}) = 2
    /\ \E bt \in Batches : task[bt].status = "returned" /\ task[bt].result = NoneResult
    /\ \E bt \in Batches : task[bt].status = "returned" /\ task[bt].result /= NoneResult

-----------------------------------------------------------------------------
(* Claims about enrichment, lost rows and extraction, checked under SpecMerge *)

\* the lines of the table before the board-name column is dealt with (line
\* 466): the canonical header, then the rows without duplicates
BeforeEnrichment ==
    LET all_lines == GatherLines(MergeInput, 1, <<>>)
    IN  <<all_lines[1]>> \o Dedup(SubSeq(all_lines, 2, Len(all_lines)))

\* the canonical header has the board-name column already
HeaderHasName ==
    \E k \in 1..Len(BeforeEnrichment[1].fields) : BeforeEnrichment[1].fields[k] = "BOARD_NAME"

\* every row that had as many fields as the canonical header before
\* enrichment has as many fields as the header of the table after it
RowsStayAligned ==
    \A m \in 2..Len(BeforeEnrichment) :
        Len(BeforeEnrichment[m].fields) = Len(BeforeEnrichment[1].fields)
            => Len(final_tsv.lines[m].fields) = Len(final_tsv.lines[1].fields)

\* C25: enrichment keeps the columns aligned: a data row with as many fields
\* as the canonical header before enrichment has as many fields as the output
\* header after it, whether or not the canonical header has the board-name
\* column already.
C25_EnrichmentKeepsAlignment ==
    (MergeOver /\ final_tsv.kind = "table") => RowsStayAligned

\* C25, as far as it holds: the same when the canonical header does not have
\* the board-name column already.
C25_AlignedWithoutNameColumn ==
    (MergeOver /\ final_tsv.kind = "table" /\ ~HeaderHasName) => RowsStayAligned

\* every data row of every extracted block is a data row of the table
NoRowLost ==
    \A n \in 1..Len(MergeInput) :
        LET rows == BlockDataRows(extract_tsv_from_ai_output(MergeInput[n]))
        IN  \A k \in 1..Len(rows) :
                \E m \in 2..Len(final_tsv.lines) : IsRow(final_tsv.lines[m], rows[k])

\* C26: no data row is lost in merging: every line extracted from a worker
\* output that does not begin with the header signature is a data row of the
\* merged table, for blocks with and without a header line of their own.
C26_NoDataRowLost ==
    (MergeOver /\ final_tsv.kind = "table") => NoRowLost

\* C26, as far as it holds: no data row is lost when every block begins with
\* a header line of its own.
C26_NoDataRowLostWithHeaders ==
    (MergeOver /\ final_tsv.kind = "table" /\ EveryBlockHasHeader) => NoRowLost

-----------------------------------------------------------------------------
(* Claims about the extraction, checked under SpecExtract *)

OpeningFences == {n \in 1..Len(ai_output) : FirstToken(ai_output[n]) = "FENCE_TSV"}
FenceLines == {n \in 1..Len(ai_output) : StartsWithFence(FirstToken(ai_output[n]))}
SignatureLines == {n \in 1..Len(ai_output) : StartsWithHeaderSig(FirstToken(ai_output[n]))}
Least(S) == CHOOSE n \in S : \A m \in S : n <= m

\* the text has a fenced tsv block: an opening fence and a fence after it
HasFencedBlock == \E o \in OpeningFences : \E c \in FenceLines : c > o
FirstOpening == Least(OpeningFences)
FirstClosing == Least({c \in FenceLines : c > FirstOpening})

\* the lines the extraction is said to take
ClaimedBlock ==
    IF HasFencedBlock THEN SubSeq(ai_output, FirstOpening + 1, FirstClosing - 1)
    ELSE IF SignatureLines /= {} THEN SubSeq(ai_output, Least(SignatureLines), Len(ai_output))
    ELSE <<>>

\* the first fenced block has nothing but blank lines between its fences
FirstBlockIsEmpty ==
    HasFencedBlock /\ \A n \in 1..Len(ClaimedBlock) : IsBlank(ClaimedBlock[n])

FieldsOf(lines) == [n \in 1..Len(lines) |-> lines[n].fields]

\* C27: extract_tsv_from_ai_output returns lines of the first fenced tsv block
\* when the text has one, otherwise lines from the first line that starts with
\* the header signature on, and no line when the text has neither; no line
\* returned is blank or starts with the failure marker.
C27_TakesFirstBlockOrHeader ==
    extract_pc = "returned" =>
        \A k \in 1..Len(extract_result) :
            /\ \E n \in 1..Len(ClaimedBlock) : ClaimedBlock[n].fields = extract_result[k].fields
            /\ ~IsBlank(extract_result[k])
            /\ ~StartsWithFail(RawFirstToken(extract_result[k]))

\* C27, as far as it holds: unless the first fenced block is empty, the lines
\* returned are the lines said to be taken, in their order, without the blank
\* lines, the lines that start with the failure marker and the comment lines
\* (the blanks before the first line of a fenced block do not count).
C27_TakesFirstSolidBlock ==
    (extract_pc = "returned" /\ ~FirstBlockIsEmpty) =>
        LET solid == {n \in 1..Len(ClaimedBlock) : ~IsBlank(ClaimedBlock[n])}
            tok(n) == IF HasFencedBlock /\ n = Least(solid)
                      THEN FirstToken(ClaimedBlock[n]) ELSE RawFirstToken(ClaimedBlock[n])
            kept == {n \in solid : ~StartsWithFail(tok(n)) /\ ~StartsWithHash(tok(n))}
        IN  FieldsOf(extract_result) = FieldsOf(SeqFilter(ClaimedBlock, kept))

-----------------------------------------------------------------------------
(* Claims about parse failures, checked under SpecSoup *)

\* a call of session.get answered with status 200 and a body that
\* BeautifulSoup raises on
IsParseFailure(e) ==
    /\ e.ev = "get"
    /\ e.outcome.kind = "response"
    /\ e.outcome.status = 200
    /\ ~e.outcome.parses

IsTimeout(e) == e.ev = "get" /\ e.outcome.kind = "Timeout"

\* attempts remain after the call at position i: fewer than max_retries
\* calls have failed before it
AttemptsRemainAfter(i) == Cardinality({j \in Gets : j <= i}) <= MAX_RETRIES

\* once get_soup has returned, another call of session.get follows position i
RetriedAfter(i) == soup_pc = "done" => \E j \in Gets : j > i

\* C28: a parse failure of a fetched page body is retried like a timeout:
\* while attempts remain, another call of session.get follows it, and
\* get_soup does not return None at once.
C28_ParseFailureIsRetried ==
    \A i \in 1..Len(soup_log) :
        (IsParseFailure(soup_log[i]) /\ AttemptsRemainAfter(i)) => RetriedAfter(i)

\* C28, the part that holds: a timeout is retried while attempts remain.
C28_TimeoutIsRetried ==
    \A i \in 1..Len(soup_log) :
        (IsTimeout(soup_log[i]) /\ AttemptsRemainAfter(i)) => RetriedAfter(i)

-----------------------------------------------------------------------------
(* Claims about the delays and the stale stop, checked under Spec *)

\* the fetches at i and j are consecutive: no fetch lies between them
ConsecutiveFetches(i, j) ==
    /\ i \in FetchIdx
    /\ j \in FetchIdx
    /\ i < j
    /\ \A k \in FetchIdx : ~(i < k /\ k < j)

AwaitedBetween(i, j, delay) == \E k \in (i + 1)..(j - 1) : trace[k].ev = delay

\* C29: between any two consecutive page fetches a page delay is awaited,
\* also when the first of them yielded no posts, and between the last fetch
\* of one board and the first fetch of the next a board delay is awaited too.
C29_DelaysBetweenFetches ==
    \A i, j \in 1..Len(trace) :
        ConsecutiveFetches(i, j) =>
            /\ AwaitedBetween(i, j, "page_delay")
            /\ trace[i].board_id /= trace[j].board_id => AwaitedBetween(i, j, "board_delay")

\* C29 witness: the first page of the first board yielded posts and its
\* second page none; the first page of the next board has been fetched after
\* that.
C29_Witness ==
    \E i, j, k \in FetchIdx :
        /\ ConsecutiveFetches(i, j)
        /\ ConsecutiveFetches(j, k)
        /\ trace[i].board_id = trace[j].board_id
        /\ ~YieldedNoPosts(trace[i])
        /\ YieldedNoPosts(trace[j])
        /\ trace[k].board_id /= trace[j].board_id

\* the records and the scan of the page fetched at position i
PageOf(i) == parse_board_page(trace[i].soup, trace[i].board_id, trace[i].page)
StaleStopAt(i) == StaleStop(PageOf(i), ScanPage(PageOf(i)))

\* C30: the stale-stop condition (the oldest post of the page is older than
\* the cutoff and no post of the page was accepted) holds for a fetched page
\* exactly when the page is non-empty and holds no post with date >= cutoff;
\* it is the same as: the page is non-empty and no post of it was accepted.
C30_StaleStopIffAllOld ==
    \A i \in FetchIdx :
        /\ StaleStopAt(i) <=> NonEmptyAllOld(trace[i])
        /\ StaleStopAt(i) <=> (Len(PageOf(i)) > 0 /\ ~ScanPage(PageOf(i)).had_recent)

\* C30 witness: a page with a post older than the cutoff and a post not older
\* has been fetched, for which the condition does not hold, and a page with
\* nothing but older posts, for which it holds.
C30_Witness ==
    \E i, j \in FetchIdx :
        /\ \E m, n \in 1..Len(PageOf(i)) :
              PageOf(i)[m].date < cutoff_date /\ PageOf(i)[n].date >= cutoff_date
        /\ ~StaleStopAt(i)
        /\ Len(PageOf(j)) > 0
        /\ StaleStopAt(j)

-----------------------------------------------------------------------------
(* Claims about the backoff waits, checked under SpecSoup *)

\* once get_soup has returned, the wait at position i was followed by another
\* call of session.get
AttemptFollows(i) == soup_pc = "done" => \E j \in Gets : j > i

\* the call of session.get before the wait at position i
WaitsFor(i) == soup_log[i - 1]

\* C31: get_soup never awaits a backoff wait that is not followed by another
\* attempt: after the last permitted attempt has failed, by a timeout, a
\* connection error or a status to retry on, it returns None without a wait.
C31_NoWaitWithoutAttempt ==
    \A i \in Sleeps : AttemptFollows(i)

\* C31, the part that holds: a wait after a call that raised (timeout,
\* connection error, request exception) is followed by another attempt.
C31_NoWaitAfterLastException ==
    \A i \in Sleeps : WaitsFor(i).outcome.kind /= "response" => AttemptFollows(i)

====
